---- MODULE Spec2Model ----
(***************************************************************************)
(* Model of compiler/optimizing/optimizing_compiler.cc (ART optimizing     *)
(* compiler).                                                              *)
(*                                                                         *)
(*   Spec            : JitCompile, run by independent compile threads      *)
(*                     against one shared code cache.                      *)
(*   SpecPasses      : the pass loop of RunOptimizations over arbitrary    *)
(*                     bounded definition sequences.                       *)
(*   SpecPipeline    : RunOptimizations on the lists of the pipeline.      *)
(*   SpecCompile     : Compile, ahead of time, on one method.              *)
(*   SpecEmitPatches : Emit on patches emitted in any order.               *)
(*   SpecEmit        : Emit, run by two compiles on one thunk storage.     *)
(*   SpecTryCompile  : TryCompile step by step, with its PassObserver.     *)
(*   SpecObserver    : the PassObserver of a baseline compile under any    *)
(*                     options.                                            *)
(***************************************************************************)
EXTENDS Integers, Sequences, FiniteSets

(***************************************************************************)
(* Bounds of the model.                                                    *)
(***************************************************************************)
\* Number of extents the code cache can hand out (a reservation takes two).
CacheExtents == 4
\* How many patches the code generator emits for a method at most.
MaxPatches == 2
\* How many rewrites the graph that TryCompile builds admits at most.
MaxBuiltRewrites == 1
\* Longest definition sequence handed to RunOptimizations.
MaxLen == 4
\* How many rewrites the graph of a pipeline run admits at most.
MaxRewrites == 2
\* How many dex registers a bytecode method has at most.
MaxDexRegisters == 1
\* How many names the list of passes to run holds at most.
MaxNames == 2
\* The largest size of the code generated for a method.
MaxCodeSize == 3

(***************************************************************************)
(* Program constants.                                                      *)
(***************************************************************************)
kSpaceFilterOptimizingThreshold == 128

\* The compile threads; each compiles its own method.
Compiles == {"t1", "t2"}

\* A null extent (an ArrayRef that was never filled in by Reserve).
NoExtent == 0
Extents == 1..CacheExtents

VARIABLES
  \* ---- JitCompile, per compile thread ----
  pc,                 \* position of the thread inside JitCompile
  is_native,          \* method->IsNative()
  jit_logger,         \* jit_logger != nullptr
  critical_debuggable,\* runtime->IsJavaDebuggable() && method->IsCriticalNative()
  codegen,            \* codegen.get() != nullptr
  reserved_code,      \* the out-parameter reserved_code of Reserve
  reserved_data,      \* the out-parameter reserved_data of Reserve
  calls,              \* calls the current compile made to its collaborators
  stats,              \* MaybeRecordStat calls of the current compile
  result,             \* what JitCompile returned: "pending", "true", "false"
  \* ---- shared ----
  generate_debug_info,\* compiler_options.GenerateAnyDebugInfo()
  cache,              \* code cache: state of every extent
  entry_point,        \* code extent each method's entry point refers to
  entry_at_begin,     \* the method's entry point when its current compile began
  stack_map,          \* the stack map the compile has encoded, if any
  code_size,          \* code_allocator.GetMemory().size() once the method's code is generated
  \* ---- RunOptimizations ----
  run_pc,             \* "idle", "loop", "returned"
  definitions,        \* the OptimizationDef array
  i,                  \* the loop index (0-based, as in the source)
  pass_changes,       \* the std::bitset of pass outcomes
  change,             \* the local `change`, the return value
  pass_log,           \* one record per visited position
  graph,              \* the HGraph: how many more rewrites it admits (0: a fixed point)
  \* ---- RunOptimizations(graph, codegen, unit, pass_observer): the pipeline ----
  phase,              \* "idle", "override", "fixed", "arch", "done"
  instruction_set,    \* codegen->GetCompilerOptions().GetInstructionSet()
  pass_names,         \* GetCompilerOptions().GetPassesToRun(): null, or a list of names
  pipeline_log,       \* the visits of the phases of this pipeline run that have returned
  phase_returns,      \* what each RunOptimizations call of this pipeline run returned
  graph_at_begin,     \* the graph when this pipeline run began
  previous_run,       \* the pipeline run completed before this one on the same graph, if any
  \* ---- Compile (ahead of time) ----
  aot_pc,             \* "idle", "intrinsic", "try_compile", "emit", "returned"
  method,             \* what the checks of this compile will find of its method
  aot_codegen,        \* codegen != nullptr
  compiled_intrinsic, \* the local of Compile
  aot_events,         \* the steps this compile has taken, in order
  aot_stats,          \* the statistics this compile has recorded, in order
  compiled_method,    \* the artifact Compile returns: none, or one
  \* ---- Emit, per compile thread, and the storage the compiles share ----
  emit_pc,            \* position of the thread inside Emit: "idle", "loop", "thunk", "returned"
  emitted_patches,    \* what codegen->EmitLinkerPatches() appends for this method
  linker_patches,     \* the local linker_patches
  patch,              \* position of the range-for over linker_patches (1-based)
  packaged_patches,   \* the patches of the CompiledMethod that Emit allocated
  emit_log,           \* the calls this Emit has made, in order
  thunk_map,          \* storage: the thunk code entries, shared by all compiles
  \* ---- TryCompile, step by step, and its PassObserver ----
  try_pc,             \* "idle", "build", "optimize", "allocate", "generate", "returned"
  unit,               \* what the checks of TryCompile will find of the method
  kIsDebugBuild,      \* the build: debug or release
  compiler_options,   \* the options the observer reads, and the name of the method
  pass_observer,      \* timing_logger_enabled_, visualizer_enabled_, graph_in_bad_state_
  try_log,            \* what the compile and its observer have done, in order
  try_stats,          \* the statistics TryCompile has recorded
  try_codegen         \* TryCompile returned a code generator

jitVars == <<pc, is_native, jit_logger, critical_debuggable, codegen, reserved_code, reserved_data,
             calls, stats, result, generate_debug_info, cache, entry_point,
             entry_at_begin, stack_map, code_size>>
pipeVars == <<phase, instruction_set, pass_names, pipeline_log, phase_returns,
              graph_at_begin, previous_run>>
passVars == <<run_pc, definitions, i, pass_changes, change, pass_log, graph, pipeVars>>
aotVars == <<aot_pc, method, aot_codegen, compiled_intrinsic, aot_events, aot_stats,
             compiled_method>>
emitVars == <<emit_pc, emitted_patches, linker_patches, patch, packaged_patches, emit_log,
              thunk_map>>
observerVars == <<kIsDebugBuild, compiler_options, pass_observer>>
tryVars == <<try_pc, unit, try_stats, try_codegen, observerVars>>
vars == <<jitVars, passVars, aotVars, emitVars, tryVars, try_log>>

Min(S) == CHOOSE x \in S : \A y \in S : x <= y

(***************************************************************************)
(* Statistics: MaybeRecordStat(compilation_stats_.get(), stat).            *)
(***************************************************************************)
MaybeRecordStat(recorded, stat) == Append(recorded, stat)

(***************************************************************************)
(* The code cache (jit::JitCodeCache): Reserve / Commit / Free.            *)
(***************************************************************************)
NoOwner == "none"
FreeExtents == {e \in Extents : cache[e].state = "free"}

\* Reserve can succeed only while two extents (code, data) are available.
CanReserve == Cardinality(FreeExtents) >= 2

ReservedCodeExtent == Min(FreeExtents)
ReservedDataExtent == Min(FreeExtents \ {ReservedCodeExtent})

\* A reservation is provisional and scoped to its owner.
CacheReserve(c, d, owner) ==
  [e \in Extents |-> IF e = c \/ e = d
                       THEN [state |-> "reserved", owner |-> owner]
                       ELSE cache[e]]

\* A successful Commit publishes the extents: they become live code.
CacheCommit(c, d) ==
  [e \in Extents |-> IF e = c \/ e = d
                       THEN [state |-> "committed", owner |-> cache[e].owner]
                       ELSE cache[e]]

\* Free returns both extents to the cache.
CacheFree(c, d) ==
  [e \in Extents |-> IF e = c \/ e = d
                       THEN [state |-> "free", owner |-> NoOwner]
                       ELSE cache[e]]

Call(op, ok, c, d) == [op |-> op, ok |-> ok, code |-> c, data |-> d]

\* stack_map.size(): the encoding of a stack map grows with the dex registers it maps.
StackMapSize(encoded) ==
  IF encoded = <<>> THEN 0 ELSE 2 + encoded[1].num_dex_registers

\* Mutant: Reserve is asked for the size of the stack map twice.
ReserveCall_StackMapSizeTwice(t, ok, c, d) ==
  [op |-> "Reserve", ok |-> ok, code |-> c, data |-> d,
   code_size |-> StackMapSize(stack_map[t]), stack_map_size |-> StackMapSize(stack_map[t])]

\* code_cache->Reserve(self, region, code size, stack_map.size(), ...): the call, with
\* the sizes it asks for and the extents it hands out.
ReserveCall(t, ok, c, d) ==
  [op |-> "Reserve", ok |-> ok, code |-> c, data |-> d,
   code_size |-> code_size[t], stack_map_size |-> StackMapSize(stack_map[t])]

(***************************************************************************)
(* TryCompile, as seen by JitCompile: the eligibility checks in source     *)
(* order, the code generator creation and the graph build.                 *)
(***************************************************************************)
GraphAnalysisResults ==
  {"kAnalysisSuccess", "kAnalysisSkipped", "kAnalysisInvalidBytecode",
   "kAnalysisFailThrowCatchLoop", "kAnalysisFailAmbiguousArrayOp",
   "kAnalysisFailIrreducibleLoopAndStringInit", "kAnalysisFailPhiEquivalentInOsr"}

BuildFailureStat(r) ==
  CASE r = "kAnalysisSkipped" -> "kNotCompiledSkipped"
    [] r = "kAnalysisInvalidBytecode" -> "kNotCompiledInvalidBytecode"
    [] r = "kAnalysisFailThrowCatchLoop" -> "kNotCompiledThrowCatchLoop"
    [] r = "kAnalysisFailAmbiguousArrayOp" -> "kNotCompiledAmbiguousArrayOp"
    [] r = "kAnalysisFailIrreducibleLoopAndStringInit" ->
         "kNotCompiledIrreducibleLoopAndStringInit"
    [] r = "kAnalysisFailPhiEquivalentInOsr" -> "kNotCompiledPhiEquivalentInOsr"

CompilationKinds == {"kOsr", "kBaseline", "kOptimized"}

MethodInputs ==
  [isa_supported : BOOLEAN,
   pathological : BOOLEAN,
   space_filter : BOOLEAN,
   insns_size : (kSpaceFilterOptimizingThreshold - 1)..(kSpaceFilterOptimizingThreshold + 1),
   codegen_created : BOOLEAN,
   build_result : GraphAnalysisResults,
   compilation_kind : CompilationKinds]

\* Mutant: the space filter rejects a method of exactly the threshold size.
TryCompileRejection_AtThreshold(m) ==
  IF ~m.isa_supported THEN "kNotCompiledUnsupportedIsa"
  ELSE IF m.pathological THEN "kNotCompiledPathological"
  ELSE IF m.space_filter /\ m.insns_size >= kSpaceFilterOptimizingThreshold
    THEN "kNotCompiledSpaceFilter"
  ELSE IF ~m.codegen_created THEN "kNotCompiledNoCodegen"
  ELSE IF m.build_result # "kAnalysisSuccess" THEN BuildFailureStat(m.build_result)
  ELSE ""

\* Mutant: the method is tested for pathology before the instruction set is.
TryCompileRejection_PathologicalFirst(m) ==
  IF m.pathological THEN "kNotCompiledPathological"
  ELSE IF ~m.isa_supported THEN "kNotCompiledUnsupportedIsa"
  ELSE IF m.space_filter /\ m.insns_size > kSpaceFilterOptimizingThreshold
    THEN "kNotCompiledSpaceFilter"
  ELSE IF ~m.codegen_created THEN "kNotCompiledNoCodegen"
  ELSE IF m.build_result # "kAnalysisSuccess" THEN BuildFailureStat(m.build_result)
  ELSE ""

\* The statistic of the first rejection point the method fails, "" if none.
TryCompileRejection(m) ==
  IF ~m.isa_supported THEN "kNotCompiledUnsupportedIsa"
  ELSE IF m.pathological THEN "kNotCompiledPathological"
  ELSE IF m.space_filter /\ m.insns_size > kSpaceFilterOptimizingThreshold
    THEN "kNotCompiledSpaceFilter"
  ELSE IF ~m.codegen_created THEN "kNotCompiledNoCodegen"
  ELSE IF m.build_result # "kAnalysisSuccess" THEN BuildFailureStat(m.build_result)
  ELSE ""

\* Mutant: the graph is constructed before the method is tested for pathology.
TryCompileEvents_GraphFirst(m) ==
  <<"IsInstructionSetSupported">> \o
  IF ~m.isa_supported THEN <<>> ELSE
  <<"HGraph", "IsPathologicalCase">> \o
  IF m.pathological THEN <<>> ELSE
  <<"SpaceFilter">> \o
  IF m.space_filter /\ m.insns_size > kSpaceFilterOptimizingThreshold THEN <<>> ELSE
  <<"CodeGenerator::Create">> \o
  IF ~m.codegen_created THEN <<>> ELSE
  <<"PassObserver", "BuildGraph">> \o
  IF m.build_result # "kAnalysisSuccess" THEN <<"SetGraphInBadState">> ELSE
  << IF m.compilation_kind = "kBaseline"
       THEN "RunBaselineOptimizations" ELSE "RunOptimizations",
     "AllocateRegisters", "codegen->Compile", "DumpDisassembly" >>

\* The steps of TryCompile on the method, in source order, up to its return.
TryCompileEvents(m) ==
  <<"IsInstructionSetSupported">> \o
  IF ~m.isa_supported THEN <<>> ELSE
  <<"IsPathologicalCase">> \o
  IF m.pathological THEN <<>> ELSE
  <<"SpaceFilter">> \o
  IF m.space_filter /\ m.insns_size > kSpaceFilterOptimizingThreshold THEN <<>> ELSE
  <<"HGraph", "CodeGenerator::Create">> \o
  IF ~m.codegen_created THEN <<>> ELSE
  <<"PassObserver", "BuildGraph">> \o
  IF m.build_result # "kAnalysisSuccess" THEN <<"SetGraphInBadState">> ELSE
  << IF m.compilation_kind = "kBaseline"
       THEN "RunBaselineOptimizations" ELSE "RunOptimizations",
     "AllocateRegisters", "codegen->Compile", "DumpDisassembly" >>

\* [codegen |-> a code generator was returned, stats |-> statistics recorded,
\*  events |-> steps taken]
TryCompile(m) ==
  LET attempt == MaybeRecordStat(<<>>, "kAttemptBytecodeCompilation")
      rejection == TryCompileRejection(m)
  IN IF rejection # ""
       THEN [codegen |-> FALSE, stats |-> MaybeRecordStat(attempt, rejection),
             events |-> TryCompileEvents(m)]
       ELSE [codegen |-> TRUE, stats |-> MaybeRecordStat(attempt, "kCompiledBytecode"),
             events |-> TryCompileEvents(m)]

\* Mutant: the intrinsic attempt tests the method for pathology before it constructs a graph.
TryCompileIntrinsicEvents_TestsPathology(m) ==
  <<"IsInstructionSetSupported">> \o
  IF ~m.isa_supported THEN <<>> ELSE
  <<"IsPathologicalCase">> \o
  IF m.pathological THEN <<>> ELSE
  <<"HGraph", "CodeGenerator::Create">> \o
  IF ~m.codegen_created THEN <<>> ELSE
  <<"PassObserver", "BuildIntrinsicGraph", "RunOptimizations", "RunArchOptimizations",
    "AllocateRegisters", "IsLeafMethod">> \o
  IF ~m.is_leaf THEN <<>> ELSE
  <<"codegen->Compile", "DumpDisassembly">>

\* Lines 911-1005. The steps of TryCompileIntrinsic on the method, up to its return.
TryCompileIntrinsicEvents(m) ==
  <<"IsInstructionSetSupported">> \o
  IF ~m.isa_supported THEN <<>> ELSE
  <<"HGraph", "CodeGenerator::Create">> \o
  IF ~m.codegen_created THEN <<>> ELSE
  <<"PassObserver", "BuildIntrinsicGraph", "RunOptimizations", "RunArchOptimizations",
    "AllocateRegisters", "IsLeafMethod">> \o
  IF ~m.is_leaf THEN <<>> ELSE
  <<"codegen->Compile", "DumpDisassembly">>

\* TryCompileIntrinsic returns a code generator.
IntrinsicCompiles(m) == m.isa_supported /\ m.codegen_created /\ m.is_leaf

TryCompileIntrinsic(m) ==
  LET attempt == MaybeRecordStat(<<>>, "kAttemptIntrinsicCompilation")
  IN IF IntrinsicCompiles(m)
       THEN [codegen |-> TRUE, stats |-> MaybeRecordStat(attempt, "kCompiledIntrinsic"),
             events |-> TryCompileIntrinsicEvents(m)]
       ELSE [codegen |-> FALSE, stats |-> attempt,
             events |-> TryCompileIntrinsicEvents(m)]

\* The steps of a call, as entries of the call log of a JIT compile.
StepCalls(events) == [k \in DOMAIN events |-> Call(events[k], TRUE, NoExtent, NoExtent)]

\* Every outcome TryCompile can have over the method inputs.
TryCompileOutcomes == {TryCompile(m) : m \in MethodInputs}

(***************************************************************************)
(* JitCompile.                                                             *)
(***************************************************************************)
Return(t, value) ==
  /\ pc' = [pc EXCEPT ![t] = "returned"]
  /\ result' = [result EXCEPT ![t] = value]

\* A thread enters JitCompile for its method.
JitCompileBegin(t) ==
  /\ pc[t] \in {"idle", "returned"}
  /\ \E native \in BOOLEAN, logger \in BOOLEAN, critical \in BOOLEAN :
       /\ is_native' = [is_native EXCEPT ![t] = native]
       /\ jit_logger' = [jit_logger EXCEPT ![t] = logger]
       /\ critical_debuggable' = [critical_debuggable EXCEPT ![t] = native /\ critical]
       /\ pc' = [pc EXCEPT ![t] = IF native THEN "native_entry" ELSE "try_compile"]
  /\ codegen' = [codegen EXCEPT ![t] = FALSE]
  /\ reserved_code' = [reserved_code EXCEPT ![t] = NoExtent]
  /\ reserved_data' = [reserved_data EXCEPT ![t] = NoExtent]
  /\ calls' = [calls EXCEPT ![t] = <<>>]
  /\ stats' = [stats EXCEPT ![t] = <<>>]
  /\ result' = [result EXCEPT ![t] = "pending"]
  /\ entry_at_begin' = [entry_at_begin EXCEPT ![t] = entry_point[t]]
  /\ stack_map' = [stack_map EXCEPT ![t] = <<>>]
  /\ UNCHANGED <<generate_debug_info, cache, entry_point, code_size, passVars, aotVars, emitVars, tryVars, try_log>>

(***************************************************************************)
(* JitCompile, native method path.                                         *)
(***************************************************************************)
\* Debuggable runtime and critical native method: use the generic trampoline.
JitNativeRefuse(t) ==
  /\ pc[t] = "native_entry"
  /\ critical_debuggable[t]
  /\ Return(t, "false")
  /\ UNCHANGED <<is_native, jit_logger, critical_debuggable, codegen, reserved_code, reserved_data, calls,
                 stats, generate_debug_info, cache, entry_point, entry_at_begin, stack_map, code_size, passVars, aotVars, emitVars, tryVars, try_log>>

\* Lines 1116-1132: the stack map of a JNI stub: BeginMethod with the frame of the stub
\* and no dex register, EndMethod, Encode.
CreateJniStackMap ==
  [origin |-> "CreateJniStackMap", num_dex_registers |-> 0, baseline |-> FALSE]

\* codegen->BuildStackMaps(code_item): the stack map of a compiled graph, with the dex
\* registers of the method.
BuildStackMaps(num_dex_registers) ==
  [origin |-> "BuildStackMaps", num_dex_registers |-> num_dex_registers, baseline |-> FALSE]

\* Mutant: the native path goes on to TryCompile's stack maps instead of the JNI one.
JitNativeCompileStub_DexRegisters(t) ==
  /\ pc[t] = "native_entry"
  /\ ~critical_debuggable[t]
  /\ calls' = [calls EXCEPT ![t] =
                 Append(Append(@, Call("ArtQuickJniCompileMethod", TRUE, NoExtent, NoExtent)),
                        Call("CreateJniStackMap", TRUE, NoExtent, NoExtent))]
  /\ stack_map' = [stack_map EXCEPT ![t] = <<BuildStackMaps(MaxDexRegisters)>>]
  /\ pc' = [pc EXCEPT ![t] = "native_reserve"]
  /\ UNCHANGED <<is_native, jit_logger, critical_debuggable, codegen, reserved_code,
                 reserved_data, stats, result, generate_debug_info, cache, entry_point,
                 entry_at_begin, code_size, passVars, aotVars, emitVars, tryVars, try_log>>

\* ArtQuickJniCompileMethod and CreateJniStackMap (num_dex_registers = 0).
JitNativeCompileStub(t) ==
  /\ pc[t] = "native_entry"
  /\ ~critical_debuggable[t]
  /\ calls' = [calls EXCEPT ![t] =
                 Append(Append(@, Call("ArtQuickJniCompileMethod", TRUE, NoExtent, NoExtent)),
                        Call("CreateJniStackMap", TRUE, NoExtent, NoExtent))]
  /\ stack_map' = [stack_map EXCEPT ![t] = <<CreateJniStackMap>>]
  /\ pc' = [pc EXCEPT ![t] = "native_reserve"]
  /\ UNCHANGED <<is_native, jit_logger, critical_debuggable, codegen, reserved_code, reserved_data,
                 stats, result, generate_debug_info, cache, entry_point, entry_at_begin, code_size, passVars, aotVars, emitVars, tryVars, try_log>>

JitNativeReserveOk(t) ==
  /\ pc[t] = "native_reserve"
  /\ CanReserve
  /\ LET c == ReservedCodeExtent
         d == ReservedDataExtent
     IN /\ cache' = CacheReserve(c, d, t)
        /\ reserved_code' = [reserved_code EXCEPT ![t] = c]
        /\ reserved_data' = [reserved_data EXCEPT ![t] = d]
        /\ calls' = [calls EXCEPT ![t] = Append(@, ReserveCall(t, TRUE, c, d))]
  /\ pc' = [pc EXCEPT ![t] = "native_fill"]
  /\ UNCHANGED <<is_native, jit_logger, critical_debuggable, codegen, stats, result, generate_debug_info,
                 entry_point, entry_at_begin, stack_map, code_size, passVars, aotVars, emitVars, tryVars, try_log>>

\* Reserve failed (the requested sizes do not fit): record the statistic, return false.
JitNativeReserveFail(t) ==
  /\ pc[t] = "native_reserve"
  /\ calls' = [calls EXCEPT ![t] = Append(@, ReserveCall(t, FALSE, NoExtent, NoExtent))]
  /\ stats' = [stats EXCEPT ![t] = MaybeRecordStat(@, "kJitOutOfMemoryForCommit")]
  /\ Return(t, "false")
  /\ UNCHANGED <<is_native, jit_logger, critical_debuggable, codegen, reserved_code, reserved_data,
                 generate_debug_info, cache, entry_point, entry_at_begin, stack_map, code_size, passVars, aotVars, emitVars, tryVars, try_log>>

\* Debug info, once the code address is known and before the entry point is updated.
JitNativeFill(t) ==
  /\ pc[t] = "native_fill"
  /\ calls' = [calls EXCEPT ![t] =
                 IF generate_debug_info
                   THEN Append(@, Call("GenerateJitDebugInfo", TRUE,
                                       reserved_code[t], NoExtent))
                   ELSE @]
  /\ pc' = [pc EXCEPT ![t] = "native_commit"]
  /\ UNCHANGED <<is_native, jit_logger, critical_debuggable, codegen, reserved_code, reserved_data,
                 stats, result, generate_debug_info, cache, entry_point, entry_at_begin, stack_map, code_size, passVars, aotVars, emitVars, tryVars, try_log>>

\* Mutant: the debug info is generated once the entry point has been updated.
JitNativeCommitOk_DebugInfoAfter(t) ==
  /\ pc[t] = "native_commit"
  /\ cache' = CacheCommit(reserved_code[t], reserved_data[t])
  /\ entry_point' = [entry_point EXCEPT ![t] = reserved_code[t]]
  /\ calls' = [calls EXCEPT ![t] =
                 LET committed == Append(@, Call("Commit", TRUE, reserved_code[t],
                                                 reserved_data[t]))
                 IN IF generate_debug_info
                      THEN Append(committed, Call("GenerateJitDebugInfo", TRUE,
                                                  reserved_code[t], NoExtent))
                      ELSE committed]
  /\ pc' = [pc EXCEPT ![t] = "native_post"]
  /\ UNCHANGED <<is_native, jit_logger, critical_debuggable, codegen, reserved_code,
                 reserved_data, stats, result, generate_debug_info, entry_at_begin, stack_map, code_size,
                 passVars, aotVars, emitVars, tryVars, try_log>>

JitNativeCommitOk(t) ==
  /\ pc[t] = "native_commit"
  /\ cache' = CacheCommit(reserved_code[t], reserved_data[t])
  /\ entry_point' = [entry_point EXCEPT ![t] = reserved_code[t]]
  /\ calls' = [calls EXCEPT ![t] =
                 Append(@, Call("Commit", TRUE, reserved_code[t], reserved_data[t]))]
  /\ pc' = [pc EXCEPT ![t] = "native_post"]
  /\ UNCHANGED <<is_native, jit_logger, critical_debuggable, codegen, reserved_code, reserved_data,
                 stats, result, generate_debug_info, entry_at_begin, stack_map, code_size, passVars, aotVars, emitVars, tryVars, try_log>>

JitNativeCommitFail(t) ==
  /\ pc[t] = "native_commit"
  /\ calls' = [calls EXCEPT ![t] =
                 Append(@, Call("Commit", FALSE, reserved_code[t], reserved_data[t]))]
  /\ pc' = [pc EXCEPT ![t] = "native_free"]
  /\ UNCHANGED <<is_native, jit_logger, critical_debuggable, codegen, reserved_code, reserved_data,
                 stats, result, generate_debug_info, cache, entry_point, entry_at_begin, stack_map, code_size, passVars, aotVars, emitVars, tryVars, try_log>>

\* code_cache->Free(self, region, reserved_code.data(), reserved_data.data()); return false
\* Mutant: Free is handed the extents in the wrong order.
JitNativeFree_SwappedExtents(t) ==
  /\ pc[t] = "native_free"
  /\ cache' = CacheFree(reserved_data[t], reserved_code[t])
  /\ calls' = [calls EXCEPT ![t] =
                 Append(@, Call("Free", TRUE, reserved_data[t], reserved_code[t]))]
  /\ Return(t, "false")
  /\ UNCHANGED <<is_native, jit_logger, critical_debuggable, codegen, reserved_code,
                 reserved_data, stats, generate_debug_info, entry_point, entry_at_begin, stack_map, code_size,
                 passVars, aotVars, emitVars, tryVars, try_log>>

JitNativeFree(t) ==
  /\ pc[t] = "native_free"
  /\ cache' = CacheFree(reserved_code[t], reserved_data[t])
  /\ calls' = [calls EXCEPT ![t] =
                 Append(@, Call("Free", TRUE, reserved_code[t], reserved_data[t]))]
  /\ Return(t, "false")
  /\ UNCHANGED <<is_native, jit_logger, critical_debuggable, codegen, reserved_code, reserved_data,
                 stats, generate_debug_info, entry_point, entry_at_begin, stack_map, code_size, passVars, aotVars, emitVars, tryVars, try_log>>

\* AddMemoryUsage, then WriteLog if a logger was passed; return true.
\* Mutant: the native path returns false after its successful Commit.
JitNativePost_ReturnsFalse(t) ==
  /\ pc[t] = "native_post"
  /\ calls' = [calls EXCEPT ![t] =
                 LET used == Append(@, Call("AddMemoryUsage", TRUE, NoExtent, NoExtent))
                 IN IF jit_logger[t]
                      THEN Append(used, Call("WriteLog", TRUE, reserved_code[t], NoExtent))
                      ELSE used]
  /\ Return(t, "false")
  /\ UNCHANGED <<is_native, jit_logger, critical_debuggable, codegen, reserved_code,
                 reserved_data, stats, generate_debug_info, cache, entry_point,
                 entry_at_begin, stack_map, code_size, passVars, aotVars, emitVars, tryVars, try_log>>

JitNativePost(t) ==
  /\ pc[t] = "native_post"
  /\ calls' = [calls EXCEPT ![t] =
                 LET used == Append(@, Call("AddMemoryUsage", TRUE, NoExtent, NoExtent))
                 IN IF jit_logger[t]
                      THEN Append(used, Call("WriteLog", TRUE, reserved_code[t], NoExtent))
                      ELSE used]
  /\ Return(t, "true")
  /\ UNCHANGED <<is_native, jit_logger, critical_debuggable, codegen, reserved_code, reserved_data,
                 stats, generate_debug_info, cache, entry_point, entry_at_begin, stack_map, code_size, passVars, aotVars, emitVars, tryVars, try_log>>

(***************************************************************************)
(* JitCompile, bytecode path.                                              *)
(***************************************************************************)
\* Mutant: the compile goes on to Reserve when TryCompile returned null.
JitTryCompileFail_ThenReserve(t) ==
  /\ pc[t] = "try_compile"
  /\ \E outcome \in TryCompileOutcomes :
       /\ ~outcome.codegen
       /\ stats' = [stats EXCEPT ![t] = @ \o outcome.stats]
       /\ calls' = [calls EXCEPT ![t] =
                      Append(@ \o StepCalls(outcome.events),
                             Call("TryCompile", FALSE, NoExtent, NoExtent))]
  /\ pc' = [pc EXCEPT ![t] = "reserve"]
  /\ UNCHANGED <<is_native, jit_logger, critical_debuggable, codegen, reserved_code,
                 reserved_data, result, generate_debug_info, cache, entry_point,
                 entry_at_begin, stack_map, code_size, passVars, aotVars, emitVars, tryVars,
                 try_log>>

\* TryCompile returned null: return false before anything is reserved.
JitTryCompileFail(t) ==
  /\ pc[t] = "try_compile"
  /\ \E outcome \in TryCompileOutcomes :
       /\ ~outcome.codegen
       /\ stats' = [stats EXCEPT ![t] = @ \o outcome.stats]
       /\ calls' = [calls EXCEPT ![t] =
                      Append(@ \o StepCalls(outcome.events),
                             Call("TryCompile", FALSE, NoExtent, NoExtent))]
  /\ Return(t, "false")
  /\ UNCHANGED <<is_native, jit_logger, critical_debuggable, codegen, reserved_code, reserved_data,
                 generate_debug_info, cache, entry_point, entry_at_begin, stack_map, code_size, passVars, aotVars, emitVars, tryVars, try_log>>

\* TryCompile returned a code generator; the stack maps are then encoded.
JitTryCompileOk(t) ==
  /\ pc[t] = "try_compile"
  /\ \E outcome \in TryCompileOutcomes :
       /\ outcome.codegen
       /\ stats' = [stats EXCEPT ![t] = @ \o outcome.stats]
       /\ calls' = [calls EXCEPT ![t] =
                      Append(Append(@ \o StepCalls(outcome.events),
                                    Call("TryCompile", TRUE, NoExtent, NoExtent)),
                             Call("BuildStackMaps", TRUE, NoExtent, NoExtent))]
  /\ codegen' = [codegen EXCEPT ![t] = TRUE]
  /\ \E num_dex_registers \in 0..MaxDexRegisters :
       stack_map' = [stack_map EXCEPT ![t] = <<BuildStackMaps(num_dex_registers)>>]
  /\ pc' = [pc EXCEPT ![t] = "reserve"]
  /\ UNCHANGED <<is_native, jit_logger, critical_debuggable, reserved_code, reserved_data, result,
                 generate_debug_info, cache, entry_point, entry_at_begin, code_size, passVars, aotVars, emitVars, tryVars, try_log>>

JitReserveOk(t) ==
  /\ pc[t] = "reserve"
  /\ CanReserve
  /\ LET c == ReservedCodeExtent
         d == ReservedDataExtent
     IN /\ cache' = CacheReserve(c, d, t)
        /\ reserved_code' = [reserved_code EXCEPT ![t] = c]
        /\ reserved_data' = [reserved_data EXCEPT ![t] = d]
        /\ calls' = [calls EXCEPT ![t] = Append(@, ReserveCall(t, TRUE, c, d))]
  /\ pc' = [pc EXCEPT ![t] = "fill"]
  /\ UNCHANGED <<is_native, jit_logger, critical_debuggable, codegen, stats, result, generate_debug_info,
                 entry_point, entry_at_begin, stack_map, code_size, passVars, aotVars, emitVars, tryVars, try_log>>

\* Mutant: the failed Reserve returns false without recording the statistic.
JitReserveFail_NoStat(t) ==
  /\ pc[t] = "reserve"
  /\ calls' = [calls EXCEPT ![t] = Append(@, ReserveCall(t, FALSE, NoExtent, NoExtent))]
  /\ Return(t, "false")
  /\ UNCHANGED <<is_native, jit_logger, critical_debuggable, codegen, reserved_code,
                 reserved_data, stats, generate_debug_info, cache, entry_point,
                 entry_at_begin, stack_map, code_size, passVars, aotVars, emitVars, tryVars, try_log>>

JitReserveFail(t) ==
  /\ pc[t] = "reserve"
  /\ calls' = [calls EXCEPT ![t] = Append(@, ReserveCall(t, FALSE, NoExtent, NoExtent))]
  /\ stats' = [stats EXCEPT ![t] = MaybeRecordStat(@, "kJitOutOfMemoryForCommit")]
  /\ Return(t, "false")
  /\ UNCHANGED <<is_native, jit_logger, critical_debuggable, codegen, reserved_code, reserved_data,
                 generate_debug_info, cache, entry_point, entry_at_begin, stack_map, code_size, passVars, aotVars, emitVars, tryVars, try_log>>

\* EmitJitRoots into the reserved data, then debug info for the reserved code address.
JitFill(t) ==
  /\ pc[t] = "fill"
  /\ calls' = [calls EXCEPT ![t] =
                 LET roots == Append(@, Call("EmitJitRoots", TRUE, NoExtent, reserved_data[t]))
                 IN IF generate_debug_info
                      THEN Append(roots, Call("GenerateJitDebugInfo", TRUE,
                                              reserved_code[t], NoExtent))
                      ELSE roots]
  /\ pc' = [pc EXCEPT ![t] = "commit"]
  /\ UNCHANGED <<is_native, jit_logger, critical_debuggable, codegen, reserved_code, reserved_data,
                 stats, result, generate_debug_info, cache, entry_point, entry_at_begin, stack_map, code_size, passVars, aotVars, emitVars, tryVars, try_log>>

\* Mutant: the test of Commit's result is inverted, so a successful Commit is followed
\* by Free.
JitCommitOk_ThenFree(t) ==
  /\ pc[t] = "commit"
  /\ cache' = CacheCommit(reserved_code[t], reserved_data[t])
  /\ entry_point' = [entry_point EXCEPT ![t] = reserved_code[t]]
  /\ calls' = [calls EXCEPT ![t] =
                 Append(@, Call("Commit", TRUE, reserved_code[t], reserved_data[t]))]
  /\ pc' = [pc EXCEPT ![t] = "free"]
  /\ UNCHANGED <<is_native, jit_logger, critical_debuggable, codegen, reserved_code,
                 reserved_data, stats, result, generate_debug_info, entry_at_begin, stack_map, code_size,
                 passVars, aotVars, emitVars, tryVars, try_log>>

JitCommitOk(t) ==
  /\ pc[t] = "commit"
  /\ cache' = CacheCommit(reserved_code[t], reserved_data[t])
  /\ entry_point' = [entry_point EXCEPT ![t] = reserved_code[t]]
  /\ calls' = [calls EXCEPT ![t] =
                 Append(@, Call("Commit", TRUE, reserved_code[t], reserved_data[t]))]
  /\ pc' = [pc EXCEPT ![t] = "post"]
  /\ UNCHANGED <<is_native, jit_logger, critical_debuggable, codegen, reserved_code, reserved_data,
                 stats, result, generate_debug_info, entry_at_begin, stack_map, code_size, passVars, aotVars, emitVars, tryVars, try_log>>

\* Mutant: the failed Commit records the statistic of a full cache.
JitCommitFail_RecordsStat(t) ==
  /\ pc[t] = "commit"
  /\ calls' = [calls EXCEPT ![t] =
                 Append(@, Call("Commit", FALSE, reserved_code[t], reserved_data[t]))]
  /\ stats' = [stats EXCEPT ![t] = MaybeRecordStat(@, "kJitOutOfMemoryForCommit")]
  /\ pc' = [pc EXCEPT ![t] = "free"]
  /\ UNCHANGED <<is_native, jit_logger, critical_debuggable, codegen, reserved_code,
                 reserved_data, result, generate_debug_info, cache, entry_point,
                 entry_at_begin, stack_map, code_size, passVars, aotVars, emitVars, tryVars, try_log>>

JitCommitFail(t) ==
  /\ pc[t] = "commit"
  /\ calls' = [calls EXCEPT ![t] =
                 Append(@, Call("Commit", FALSE, reserved_code[t], reserved_data[t]))]
  /\ pc' = [pc EXCEPT ![t] = "free"]
  /\ UNCHANGED <<is_native, jit_logger, critical_debuggable, codegen, reserved_code, reserved_data,
                 stats, result, generate_debug_info, cache, entry_point, entry_at_begin, stack_map, code_size, passVars, aotVars, emitVars, tryVars, try_log>>

\* Mutant: the failed Commit returns false without freeing the reservation.
JitFree_Leak(t) ==
  /\ pc[t] = "free"
  /\ Return(t, "false")
  /\ UNCHANGED <<is_native, jit_logger, critical_debuggable, codegen, reserved_code,
                 reserved_data, calls, stats, generate_debug_info, cache, entry_point,
                 entry_at_begin, stack_map, code_size, passVars, aotVars, emitVars, tryVars, try_log>>

\* Mutant: Free is handed the extents some compile reserved, not those of this compile.
JitFree_OtherCompile(t) ==
  /\ pc[t] = "free"
  /\ \E u \in Compiles :
       /\ cache' = CacheFree(reserved_code[u], reserved_data[u])
       /\ calls' = [calls EXCEPT ![t] =
                      Append(@, Call("Free", TRUE, reserved_code[u], reserved_data[u]))]
  /\ Return(t, "false")
  /\ UNCHANGED <<is_native, jit_logger, critical_debuggable, codegen, reserved_code,
                 reserved_data, stats, generate_debug_info, entry_point, entry_at_begin,
                 stack_map, code_size, passVars, aotVars, emitVars, tryVars, try_log>>

JitFree(t) ==
  /\ pc[t] = "free"
  /\ cache' = CacheFree(reserved_code[t], reserved_data[t])
  /\ calls' = [calls EXCEPT ![t] =
                 Append(@, Call("Free", TRUE, reserved_code[t], reserved_data[t]))]
  /\ Return(t, "false")
  /\ UNCHANGED <<is_native, jit_logger, critical_debuggable, codegen, reserved_code, reserved_data,
                 stats, generate_debug_info, entry_point, entry_at_begin, stack_map, code_size, passVars, aotVars, emitVars, tryVars, try_log>>

JitPost(t) ==
  /\ pc[t] = "post"
  /\ calls' = [calls EXCEPT ![t] =
                 LET used == Append(@, Call("AddMemoryUsage", TRUE, NoExtent, NoExtent))
                 IN IF jit_logger[t]
                      THEN Append(used, Call("WriteLog", TRUE, reserved_code[t], NoExtent))
                      ELSE used]
  /\ Return(t, "true")
  /\ UNCHANGED <<is_native, jit_logger, critical_debuggable, codegen, reserved_code, reserved_data,
                 stats, generate_debug_info, cache, entry_point, entry_at_begin, stack_map, code_size, passVars, aotVars, emitVars, tryVars, try_log>>

(***************************************************************************)
(* PassObserver and PassScope (lines 97-267): the harness around a pass.   *)
(***************************************************************************)
\* static constexpr const char kStringFilter[] = "";
kStringFilter == <<>>

\* Pretty method names, one of them part of another.
MethodNames == { <<"f">>, <<"f", "g">>, <<"h">> }

\* strstr(haystack, needle) != nullptr
Strstr(haystack, needle) ==
  \E k \in 0..(Len(haystack) - Len(needle)) :
    SubSeq(haystack, k + 1, k + Len(needle)) = needle

\* compiler_options.HasVerboseMethods(): a list of verbose methods is configured.
HasVerboseMethods(options) == options.verbose_methods # {}

\* compiler_options.IsVerboseMethod(method_name): the name is on the list.
OptionsIsVerboseMethod(options, method_name) == method_name \in options.verbose_methods

\* Mutant: the substring filter is consulted as well when a list is configured.
IsVerboseMethod_FilterToo(options, method_name) ==
  \/ HasVerboseMethods(options) /\ OptionsIsVerboseMethod(options, method_name)
  \/ kStringFilter = <<>>
  \/ Strstr(method_name, kStringFilter)

\* Lines 204-219.
IsVerboseMethod(options, method_name) ==
  IF HasVerboseMethods(options)
    THEN OptionsIsVerboseMethod(options, method_name)
    ELSE IF kStringFilter = <<>> \/ Strstr(method_name, kStringFilter)
      THEN TRUE
      ELSE FALSE

\* The options an observer can be constructed under.
CompilerOptions ==
  [dump_pass_timings : BOOLEAN,      \* GetDumpPassTimings()
   dump_cfg : BOOLEAN,               \* !GetDumpCfgFileName().empty()
   verbose_methods : SUBSET MethodNames,
   method_name : MethodNames]        \* GetMethodName()

\* Lines 103-128: the observer as its constructor leaves it.
PassObserver(options) ==
  LET requested == options.dump_pass_timings \/ options.dump_cfg
      verbose == IsVerboseMethod(options, options.method_name)
  IN [timing_logger_enabled_ |->
        IF requested /\ ~verbose THEN FALSE ELSE options.dump_pass_timings,
      visualizer_enabled_ |->
        IF requested /\ ~verbose THEN FALSE ELSE options.dump_cfg,
      graph_in_bad_state_ |-> FALSE]

\* An observer of a compile that asks for no timing and no visualization.
NoOptions ==
  [dump_pass_timings |-> FALSE, dump_cfg |-> FALSE, verbose_methods |-> {},
   method_name |-> <<"f">>]

\* One thing done: by whom, for which pass, and the flag it was given (is_after_pass of
\* DumpGraph, pass_change of EndPass and of the checker's Run).
Did(op, pass_name, flag) == [op |-> op, pass_name |-> pass_name, flag |-> flag]

\* A step of the compile that is not the observer's.
Step(op) == Did(op, "", FALSE)

\* Lines 115-127, the tail of the constructor: the header of the visualizer.
PrintHeader(observer) ==
  IF observer.visualizer_enabled_ THEN <<Step("PrintHeader")>> ELSE <<>>

\* Lines 159-169.
StartPass(observer, pass_name) ==
  <<Did("StartPass", pass_name, FALSE)>> \o
  (IF observer.visualizer_enabled_ THEN <<Did("DumpGraph", pass_name, FALSE)>> ELSE <<>>) \o
  (IF observer.timing_logger_enabled_ THEN <<Did("StartTiming", pass_name, FALSE)>> ELSE <<>>)

\* Mutant: the graph is validated on exit whether or not it is marked bad.
EndPass_ValidatesBadGraph(observer, debug, pass_name, pass_change) ==
  <<Did("EndPass", pass_name, pass_change)>> \o
  (IF observer.timing_logger_enabled_ THEN <<Did("EndTiming", pass_name, FALSE)>> ELSE <<>>) \o
  (IF observer.visualizer_enabled_ THEN <<Did("DumpGraph", pass_name, TRUE)>> ELSE <<>>) \o
  (IF debug THEN <<Did("GraphChecker", pass_name, pass_change)>> ELSE <<>>)

\* Lines 178-202. The graph is taken to be valid whenever it is checked.
EndPass(observer, debug, pass_name, pass_change) ==
  <<Did("EndPass", pass_name, pass_change)>> \o
  (IF observer.timing_logger_enabled_ THEN <<Did("EndTiming", pass_name, FALSE)>> ELSE <<>>) \o
  (IF observer.visualizer_enabled_ THEN <<Did("DumpGraph", pass_name, TRUE)>> ELSE <<>>) \o
  (IF debug
     THEN (IF ~observer.graph_in_bad_state_
             THEN <<Did("GraphChecker", pass_name, pass_change)>>
             ELSE <<>>)
     ELSE <<>>)

\* Lines 141-146.
DumpDisassembly(observer) ==
  <<Step("DumpDisassembly")>> \o
  (IF observer.visualizer_enabled_ THEN <<Step("DumpGraphWithDisassembly")>> ELSE <<>>)

\* Lines 130-139: the destructor.
DestroyPassObserver(observer) ==
  (IF observer.timing_logger_enabled_ THEN <<Step("TIMINGS")>> ELSE <<>>) \o
  (IF observer.visualizer_enabled_ THEN <<Step("FlushVisualizer")>> ELSE <<>>)

\* Lines 246-267: a scope around a body that leaves the observer as it found it. The
\* constructor enters the pass, the destructor leaves it with pass_change_.
PassScope(observer, debug, pass_name, body, pass_change) ==
  StartPass(observer, pass_name) \o body \o EndPass(observer, debug, pass_name, pass_change)

\* Lines 331-342: the scope of an executed pass; pass_change_ is true unless the pass
\* reports that it changed nothing.
RunInScope(pass_name, pass_change) ==
  try_log' = try_log \o
    PassScope(pass_observer, kIsDebugBuild, pass_name, <<Did("Run", pass_name, pass_change)>>,
              pass_change)

(***************************************************************************)
(* RunOptimizations(graph, codegen, unit, pass_observer, definitions,      *)
(* length): the pass loop.                                                 *)
(***************************************************************************)
\* The sentinel "always" identity.
kNone == "kNone"
\* The pass identities used in the definition sequences explored by SpecPasses.
Passes == {"kInliner", "kConstantFolding"}

\* The pass identities the lists of this file name.
OptimizationPasses ==
  {"kConstantFolding", "kInstructionSimplifier", "kDeadCodeElimination", "kInliner",
   "kSideEffectsAnalysis", "kGlobalValueNumbering", "kSelectGenerator",
   "kInvariantCodeMotion", "kInductionVarAnalysis", "kBoundsCheckElimination",
   "kLoopOptimization", "kAggressiveInstructionSimplifier", "kLoadStoreElimination",
   "kCHAGuardOptimization", "kCodeSinking", "kConstructorFenceRedundancyElimination",
   "kScheduling", "kInstructionSimplifierArm", "kInstructionSimplifierArm64",
   "kInstructionSimplifierX86", "kInstructionSimplifierX86_64", "kPcRelativeFixupsX86",
   "kX86MemoryOperandGeneration", "kCriticalNativeAbiFixupArm"}

\* The entries of the bitset: one per pass identity, and the sentinel.
PassIds == OptimizationPasses \cup {kNone}

\* OptimizationPassName(pass): the default display name of a pass.
OptimizationPassName(pass) ==
  CASE pass = "kConstantFolding" -> "constant_folding"
    [] pass = "kInstructionSimplifier" -> "instruction_simplifier"
    [] pass = "kDeadCodeElimination" -> "dead_code_elimination"
    [] pass = "kInliner" -> "inliner"
    [] pass = "kSideEffectsAnalysis" -> "side_effects"
    [] pass = "kGlobalValueNumbering" -> "GVN"
    [] pass = "kSelectGenerator" -> "select_generator"
    [] pass = "kInvariantCodeMotion" -> "licm"
    [] pass = "kInductionVarAnalysis" -> "induction_var_analysis"
    [] pass = "kBoundsCheckElimination" -> "BCE"
    [] pass = "kLoopOptimization" -> "loop_optimization"
    [] pass = "kAggressiveInstructionSimplifier" -> "instruction_simplifier"
    [] pass = "kLoadStoreElimination" -> "load_store_elimination"
    [] pass = "kCHAGuardOptimization" -> "cha_guard_optimization"
    [] pass = "kCodeSinking" -> "code_sinking"
    [] pass = "kConstructorFenceRedundancyElimination" ->
         "constructor_fence_redundancy_elimination"
    [] pass = "kScheduling" -> "scheduler"
    [] pass = "kInstructionSimplifierArm" -> "instruction_simplifier_arm"
    [] pass = "kInstructionSimplifierArm64" -> "instruction_simplifier_arm64"
    [] pass = "kInstructionSimplifierX86" -> "instruction_simplifier_x86"
    [] pass = "kInstructionSimplifierX86_64" -> "instruction_simplifier_x86_64"
    [] pass = "kPcRelativeFixupsX86" -> "pc_relative_fixups_x86"
    [] pass = "kX86MemoryOperandGeneration" -> "x86_memory_operand_generation"
    [] pass = "kCriticalNativeAbiFixupArm" -> "critical_native_abi_fixup_arm"

\* Mutant: a definition does not keep the dependency it is given.
OptDefNamed_NoDependency(pass, pass_name, depends_on) ==
  [pass |-> pass, pass_name |-> pass_name, depends_on |-> kNone]

\* OptDef(pass, pass_name, depends_on)
OptDefNamed(pass, pass_name, depends_on) ==
  [pass |-> pass, pass_name |-> pass_name, depends_on |-> depends_on]

\* OptDef(pass, depends_on), the display name defaulted
OptDef(pass, depends_on) == OptDefNamed(pass, OptimizationPassName(pass), depends_on)

\* OptDef(pass), name and dependency defaulted
OptDefOf(pass) == OptDef(pass, kNone)

OptimizationDefs == {OptDef(p, d) : p \in Passes, d \in Passes \cup {kNone}}

DefinitionSeqs == UNION {[1..n -> OptimizationDefs] : n \in 0..MaxLen}

length == Len(definitions)

\* The definition at the (0-based) loop index.
Current == definitions[i + 1]

Visit(executed, pass_change) ==
  [pos |-> i, pass |-> Current.pass, pass_name |-> Current.pass_name,
   depends_on |-> Current.depends_on,
   executed |-> executed, pass_change |-> pass_change]

\* optimizations[i]->Run(): a pass can rewrite the graph only while the graph admits a
\* rewrite, and reports a change exactly when it rewrote it.
RunOutcomes == IF graph > 0 THEN BOOLEAN ELSE {FALSE}
GraphAfterRun(pass_change) == IF pass_change THEN graph - 1 ELSE graph

\* Mutant: the sentinel entry is not set.
RunOptimizationsBegin_NoSentinel ==
  /\ run_pc \in {"idle", "returned"}
  /\ pass_changes' = [p \in PassIds |-> FALSE]
  /\ change' = FALSE
  /\ i' = 0
  /\ pass_log' = <<>>
  /\ run_pc' = "loop"
  /\ try_log' = <<>>
  /\ UNCHANGED <<definitions, graph, pipeVars, jitVars, aotVars, emitVars, tryVars>>

\* std::bitset<kLast + 1> pass_changes; pass_changes[kNone] = true; change = false.
\* The call is made for a compile of its own, whose observer has seen nothing yet.
RunOptimizationsBegin ==
  /\ run_pc \in {"idle", "returned"}
  /\ pass_changes' = [p \in PassIds |-> p = kNone]
  /\ change' = FALSE
  /\ i' = 0
  /\ pass_log' = <<>>
  /\ run_pc' = "loop"
  /\ try_log' = <<>>
  /\ UNCHANGED <<definitions, graph, pipeVars, jitVars, aotVars, emitVars, tryVars>>

\* Mutant: a dependency that no earlier definition of the sequence names counts as
\* satisfied.
DependencySatisfied_UnlessUnseen ==
  \/ pass_changes[Current.depends_on]
  \/ \A k \in 1..i : definitions[k].pass # Current.depends_on

\* Mutant: the loop tests the entry of the pass itself, not of its dependency.
DependencySatisfied_OwnPass == pass_changes[Current.pass] \/ Current.depends_on = kNone

\* if (pass_changes[definitions[i].depends_on])
DependencySatisfied == pass_changes[Current.depends_on]

\* Mutant: an executed pass is always recorded as having changed the graph.
ExecutePass_RecordsTrue ==
  /\ run_pc = "loop"
  /\ i < length
  /\ DependencySatisfied
  /\ \E pass_change \in RunOutcomes :
       /\ graph' = GraphAfterRun(pass_change)
       /\ pass_changes' = [pass_changes EXCEPT ![Current.pass] = TRUE]
       /\ change' = (IF pass_change THEN TRUE ELSE change)
       /\ pass_log' = Append(pass_log, Visit(TRUE, pass_change))
       /\ RunInScope(Current.pass_name, pass_change)
  /\ i' = i + 1
  /\ UNCHANGED <<run_pc, definitions, pipeVars, jitVars, aotVars, emitVars, tryVars>>

\* Mutant: the outcome is or-ed into the entry instead of overwriting it.
ExecutePass_StickyOutcome ==
  /\ run_pc = "loop"
  /\ i < length
  /\ DependencySatisfied
  /\ \E pass_change \in RunOutcomes :
       /\ graph' = GraphAfterRun(pass_change)
       /\ pass_changes' = [pass_changes EXCEPT ![Current.pass] = @ \/ pass_change]
       /\ change' = (IF pass_change THEN TRUE ELSE change)
       /\ pass_log' = Append(pass_log, Visit(TRUE, pass_change))
       /\ RunInScope(Current.pass_name, pass_change)
  /\ i' = i + 1
  /\ UNCHANGED <<run_pc, definitions, pipeVars, jitVars, aotVars, emitVars, tryVars>>

\* Mutant: the return value is the outcome of the pass executed last.
ExecutePass_LastOutcome ==
  /\ run_pc = "loop"
  /\ i < length
  /\ DependencySatisfied
  /\ \E pass_change \in RunOutcomes :
       /\ graph' = GraphAfterRun(pass_change)
       /\ pass_changes' = [pass_changes EXCEPT ![Current.pass] = pass_change]
       /\ change' = pass_change
       /\ pass_log' = Append(pass_log, Visit(TRUE, pass_change))
       /\ RunInScope(Current.pass_name, pass_change)
  /\ i' = i + 1
  /\ UNCHANGED <<run_pc, definitions, pipeVars, jitVars, aotVars, emitVars, tryVars>>

\* Execute the pass and record whether it changed anything.
ExecutePass ==
  /\ run_pc = "loop"
  /\ i < length
  /\ DependencySatisfied
  /\ \E pass_change \in RunOutcomes :
       /\ graph' = GraphAfterRun(pass_change)
       /\ pass_changes' = [pass_changes EXCEPT ![Current.pass] = pass_change]
       /\ change' = (IF pass_change THEN TRUE ELSE change)
       /\ pass_log' = Append(pass_log, Visit(TRUE, pass_change))
       /\ RunInScope(Current.pass_name, pass_change)
  /\ i' = i + 1
  /\ UNCHANGED <<run_pc, definitions, pipeVars, jitVars, aotVars, emitVars, tryVars>>

\* Mutant: a skipped pass is entered and left like an executed one that changed nothing.
SkipPass_InScope ==
  /\ run_pc = "loop"
  /\ i < length
  /\ ~DependencySatisfied
  /\ pass_changes' = [pass_changes EXCEPT ![Current.pass] = FALSE]
  /\ pass_log' = Append(pass_log, Visit(FALSE, FALSE))
  /\ try_log' = try_log \o PassScope(pass_observer, kIsDebugBuild, Current.pass_name, <<>>, FALSE)
  /\ i' = i + 1
  /\ UNCHANGED <<run_pc, definitions, change, graph, pipeVars, jitVars, aotVars, emitVars, tryVars>>

\* Mutant: a skipped pass leaves its entry as the previous occurrence set it.
SkipPass_KeepsOutcome ==
  /\ run_pc = "loop"
  /\ i < length
  /\ ~DependencySatisfied
  /\ pass_log' = Append(pass_log, Visit(FALSE, FALSE))
  /\ i' = i + 1
  /\ UNCHANGED <<run_pc, definitions, pass_changes, change, graph, pipeVars, jitVars, aotVars, emitVars, tryVars, try_log>>

\* Skip the pass and record that nothing changed.
SkipPass ==
  /\ run_pc = "loop"
  /\ i < length
  /\ ~DependencySatisfied
  /\ pass_changes' = [pass_changes EXCEPT ![Current.pass] = FALSE]
  /\ pass_log' = Append(pass_log, Visit(FALSE, FALSE))
  /\ i' = i + 1
  /\ UNCHANGED <<run_pc, definitions, change, graph, pipeVars, jitVars, aotVars, emitVars, tryVars, try_log>>

\* return change
RunOptimizationsReturn ==
  /\ run_pc = "loop"
  /\ ~(i < length)
  /\ run_pc' = "returned"
  /\ UNCHANGED <<definitions, i, pass_changes, change, pass_log, graph, pipeVars, jitVars, aotVars, emitVars, tryVars, try_log>>

(***************************************************************************)
(* RunOptimizations(graph, codegen, unit, pass_observer): the pass lists.  *)
(***************************************************************************)
\* GetPassesToRun() == nullptr
NullPassNames == [null |-> TRUE, names |-> <<>>]

\* Lines 632-688: the fixed list of the full pipeline.
FixedOptimizations ==
  << OptDefOf("kConstantFolding"),
     OptDefOf("kInstructionSimplifier"),
     OptDefNamed("kDeadCodeElimination", "dead_code_elimination$initial", kNone),
     OptDefOf("kInliner"),
     OptDefNamed("kConstantFolding", "constant_folding$after_inlining", "kInliner"),
     OptDefNamed("kInstructionSimplifier", "instruction_simplifier$after_inlining",
                 "kInliner"),
     OptDefNamed("kDeadCodeElimination", "dead_code_elimination$after_inlining",
                 "kInliner"),
     OptDefNamed("kSideEffectsAnalysis", "side_effects$before_gvn", kNone),
     OptDefOf("kGlobalValueNumbering"),
     OptDefOf("kSelectGenerator"),
     OptDefNamed("kConstantFolding", "constant_folding$after_gvn", kNone),
     OptDefNamed("kInstructionSimplifier", "instruction_simplifier$after_gvn", kNone),
     OptDefNamed("kDeadCodeElimination", "dead_code_elimination$after_gvn", kNone),
     OptDefNamed("kSideEffectsAnalysis", "side_effects$before_licm", kNone),
     OptDefOf("kInvariantCodeMotion"),
     OptDefOf("kInductionVarAnalysis"),
     OptDefOf("kBoundsCheckElimination"),
     OptDefOf("kLoopOptimization"),
     OptDefNamed("kConstantFolding", "constant_folding$after_bce", kNone),
     OptDefNamed("kAggressiveInstructionSimplifier", "instruction_simplifier$after_bce",
                 kNone),
     OptDefOf("kLoadStoreElimination"),
     OptDefOf("kCHAGuardOptimization"),
     OptDefNamed("kDeadCodeElimination", "dead_code_elimination$final", kNone),
     OptDefOf("kCodeSinking"),
     OptDefNamed("kAggressiveInstructionSimplifier",
                 "instruction_simplifier$before_codegen", kNone),
     OptDefOf("kConstructorFenceRedundancyElimination") >>

\* The instruction sets RunArchOptimizations has a list for, and one it has none for.
InstructionSets == {"kThumb2", "kArm64", "kX86", "kX86_64", "kNone"}

\* RunArchOptimizations has a case for the instruction set.
HasArchOptimizations(isa) == isa \in {"kThumb2", "kArm", "kArm64", "kX86", "kX86_64"}

\* RunArchOptimizations: the list of the instruction set.
ArchOptimizations(isa) ==
  CASE isa \in {"kThumb2", "kArm"} ->
         << OptDefOf("kInstructionSimplifierArm"),
            OptDefOf("kSideEffectsAnalysis"),
            OptDefNamed("kGlobalValueNumbering", "GVN$after_arch", kNone),
            OptDefOf("kCriticalNativeAbiFixupArm"),
            OptDefOf("kScheduling") >>
    [] isa = "kArm64" ->
         << OptDefOf("kInstructionSimplifierArm64"),
            OptDefOf("kSideEffectsAnalysis"),
            OptDefNamed("kGlobalValueNumbering", "GVN$after_arch", kNone),
            OptDefOf("kScheduling") >>
    [] isa = "kX86" ->
         << OptDefOf("kInstructionSimplifierX86"),
            OptDefOf("kSideEffectsAnalysis"),
            OptDefNamed("kGlobalValueNumbering", "GVN$after_arch", kNone),
            OptDefOf("kPcRelativeFixupsX86"),
            OptDefOf("kX86MemoryOperandGeneration") >>
    [] isa = "kX86_64" ->
         << OptDefOf("kInstructionSimplifierX86_64"),
            OptDefOf("kSideEffectsAnalysis"),
            OptDefNamed("kGlobalValueNumbering", "GVN$after_arch", kNone),
            OptDefOf("kX86MemoryOperandGeneration") >>

\* A pass name is a string of characters; kPassNameSeparator is one of them.
kPassNameSeparator == "$"

\* The names a list of passes to run is made of here: three optimization names, each
\* bare, with one suffix, and with a suffix that itself holds a separator.
OptimizationNames == { <<"G", "V", "N">>, <<"l", "i", "c", "m">>, <<"B", "C", "E">> }
NameSuffixes == { <<>>, <<"$", "a">>, <<"$", "a", "$", "b">> }
PassNames == {n \o s : n \in OptimizationNames, s \in NameSuffixes}
PassNameLists == UNION {[1..n -> PassNames] : n \in 0..MaxNames}

\* pass_name.find(kPassNameSeparator): the first position (from 0) holding the separator,
\* npos when there is none.
npos == -1
Find(pass_name, c) ==
  IF \E k \in DOMAIN pass_name : pass_name[k] = c
    THEN Min({k \in DOMAIN pass_name : pass_name[k] = c}) - 1
    ELSE npos

\* Mutant: the name is cut at its last separator.
ConvertPassNameToOptimizationName_LastSeparator(pass_name) ==
  LET seps == {k \in DOMAIN pass_name : pass_name[k] = kPassNameSeparator}
  IN  IF seps = {} THEN pass_name
      ELSE SubSeq(pass_name, 1, (CHOOSE k \in seps : \A l \in seps : l <= k) - 1)

\* Lines 602-606: the name up to, not including, its first separator.
ConvertPassNameToOptimizationName(pass_name) ==
  LET pos == Find(pass_name, kPassNameSeparator)
  IN  IF pos = npos THEN pass_name ELSE SubSeq(pass_name, 1, pos)

\* OptimizationPassByName(name): the identity whose default name is the given one;
\* an unknown name is fatal.
OptimizationPassByName(name) ==
  CASE name = <<"G", "V", "N">> -> "kGlobalValueNumbering"
    [] name = <<"l", "i", "c", "m">> -> "kInvariantCodeMotion"
    [] name = <<"B", "C", "E">> -> "kBoundsCheckElimination"
    [] OTHER -> "LOG(FATAL)"

\* Lines 615-627: one definition per name of the list, in the order of the list.
OverrideOptimizations(names) ==
  [k \in DOMAIN names |->
     OptDefNamed(OptimizationPassByName(ConvertPassNameToOptimizationName(names[k])),
                 names[k], kNone)]

\* The pipeline run that has just completed, as the next one remembers it.
CompletedRun ==
  [graph_at_begin |-> graph_at_begin, graph_at_end |-> graph,
   log |-> pipeline_log, returns |-> phase_returns]

\* Mutant: the loop starts from the outcomes the previous call left.
StartLoop_KeepsOutcomes(list) ==
  /\ definitions' = list
  /\ pass_changes' = [pass_changes EXCEPT ![kNone] = TRUE]
  /\ change' = FALSE
  /\ i' = 0
  /\ pass_log' = <<>>
  /\ run_pc' = "loop"

\* Mutant: the loop does not clear what the previous call accumulated.
StartLoop_KeepsChange(list) ==
  /\ definitions' = list
  /\ pass_changes' = [p \in PassIds |-> p = kNone]
  /\ change' = change
  /\ i' = 0
  /\ pass_log' = <<>>
  /\ run_pc' = "loop"

\* One call of the loop on a list: a fresh bitset, position 0, nothing changed.
StartLoop(list) ==
  /\ definitions' = list
  /\ pass_changes' = [p \in PassIds |-> p = kNone]
  /\ change' = FALSE
  /\ i' = 0
  /\ pass_log' = <<>>
  /\ run_pc' = "loop"

\* A pipeline run begins: on a graph just built, or again on the graph the previous
\* run left; that run is remembered if it left the graph as it found it.
PipelineBegin ==
  /\ phase \in {"idle", "done"}
  /\ previous_run' = IF phase = "done" /\ graph = graph_at_begin
                      THEN <<CompletedRun>> ELSE <<>>
  /\ graph_at_begin' = graph
  /\ pipeline_log' = <<>>
  /\ phase_returns' = <<>>
  \* a pipeline run that follows another is that of a later compile, with its own observer
  /\ try_log' = (IF phase = "done" THEN <<>> ELSE try_log) \o <<Step("RunOptimizations")>>

\* Lines 612-630: a list of passes to run is given; it is the whole pipeline.
RunOptimizationsOverride ==
  /\ PipelineBegin
  /\ ~pass_names.null
  /\ StartLoop(OverrideOptimizations(pass_names.names))
  /\ phase' = "override"
  /\ UNCHANGED <<graph, instruction_set, pass_names, jitVars, aotVars, emitVars, tryVars>>

\* Lines 632-693: no list is given; the fixed list runs.
RunOptimizationsFixed ==
  /\ PipelineBegin
  /\ pass_names.null
  /\ StartLoop(FixedOptimizations)
  /\ phase' = "fixed"
  /\ UNCHANGED <<graph, instruction_set, pass_names, jitVars, aotVars, emitVars, tryVars>>

\* Mutant: the list of the instruction set also runs after a list of passes to run.
RunArchOptimizations_AfterOverride ==
  /\ phase \in {"fixed", "override"}
  /\ run_pc = "returned"
  /\ HasArchOptimizations(instruction_set)
  /\ StartLoop(ArchOptimizations(instruction_set))
  /\ pipeline_log' = pipeline_log \o pass_log
  /\ phase_returns' = Append(phase_returns, change)
  /\ phase' = "arch"
  /\ UNCHANGED <<graph, instruction_set, pass_names, graph_at_begin, previous_run, jitVars, aotVars, emitVars, tryVars, try_log>>

\* Line 695: the fixed list has returned; the list of the instruction set runs.
RunArchOptimizations ==
  /\ phase = "fixed"
  /\ run_pc = "returned"
  /\ HasArchOptimizations(instruction_set)
  /\ StartLoop(ArchOptimizations(instruction_set))
  /\ pipeline_log' = pipeline_log \o pass_log
  /\ phase_returns' = Append(phase_returns, change)
  /\ phase' = "arch"
  /\ UNCHANGED <<graph, instruction_set, pass_names, graph_at_begin, previous_run, jitVars, aotVars, emitVars, tryVars, try_log>>

\* Line 695, default case: no list for the instruction set; nothing runs.
RunArchOptimizationsNone ==
  /\ phase = "fixed"
  /\ run_pc = "returned"
  /\ ~HasArchOptimizations(instruction_set)
  /\ pipeline_log' = pipeline_log \o pass_log
  /\ phase_returns' = Append(phase_returns, change)
  /\ phase' = "done"
  /\ UNCHANGED <<run_pc, definitions, i, pass_changes, change, pass_log, graph,
                 instruction_set, pass_names, graph_at_begin, previous_run, jitVars, aotVars, emitVars, tryVars, try_log>>

\* Lines 629 and 696: the last list has returned; so does the pipeline.
RunOptimizationsDone ==
  /\ phase \in {"override", "arch"}
  /\ run_pc = "returned"
  /\ pipeline_log' = pipeline_log \o pass_log
  /\ phase_returns' = Append(phase_returns, change)
  /\ phase' = "done"
  /\ UNCHANGED <<run_pc, definitions, i, pass_changes, change, pass_log, graph,
                 instruction_set, pass_names, graph_at_begin, previous_run, jitVars, aotVars, emitVars, tryVars, try_log>>

(***************************************************************************)
(* TryCompile (lines 739-909), step by step, with its PassObserver.        *)
(***************************************************************************)
\* Lines 455-461.
IsInstructionSetSupported(isa) == isa \in {"kArm", "kArm64", "kThumb2", "kX86", "kX86_64"}

\* RunBaselineOptimizations has a case for the instruction set.
HasBaselineOptimizations(isa) == isa \in {"kThumb2", "kArm", "kX86"}

\* Lines 467-492: the list of the instruction set.
BaselineOptimizations(isa) ==
  CASE isa \in {"kThumb2", "kArm"} -> << OptDefOf("kCriticalNativeAbiFixupArm") >>
    [] isa = "kX86" -> << OptDefOf("kPcRelativeFixupsX86") >>

\* The names the scopes of TryCompile and of AllocateRegisters are given.
kBuilderPassName == "HGraphBuilder::kBuilderPassName"
kPrepareForRegisterAllocationPassName ==
  "PrepareForRegisterAllocation::kPrepareForRegisterAllocationPassName"
kLivenessPassName == "SsaLivenessAnalysis::kLivenessPassName"
kRegisterAllocatorPassName == "RegisterAllocator::kRegisterAllocatorPassName"

\* The steps of TryCompile that come before the builder's scope.
PreBuildSteps ==
  {"IsInstructionSetSupported", "IsPathologicalCase", "SpaceFilter", "HGraph",
   "CodeGenerator::Create", "PassObserver"}

IsPreBuildStep(e) == e \in PreBuildSteps

PreBuildEvents(m) ==
  LET events == SelectSeq(TryCompileEvents(m), IsPreBuildStep)
  IN [k \in DOMAIN events |-> Step(events[k])]

\* The statistic of the rejection that returns before the observer is constructed.
PreBuildRejection(m) == TryCompileRejection([m EXCEPT !.build_result = "kAnalysisSuccess"])

\* Lines 746-832: the method is rejected before an observer is constructed.
TryCompileReject ==
  /\ try_pc = "idle"
  /\ PreBuildRejection(unit) # ""
  /\ try_stats' = MaybeRecordStat(MaybeRecordStat(<<>>, "kAttemptBytecodeCompilation"),
                                  PreBuildRejection(unit))
  /\ try_log' = PreBuildEvents(unit)
  /\ try_pc' = "returned"
  /\ UNCHANGED <<unit, try_codegen, observerVars, jitVars, passVars, aotVars, emitVars>>

\* Lines 746-838: the checks pass, the graph and the code generator are created and
\* the observer is constructed.
TryCompileBegin ==
  /\ try_pc = "idle"
  /\ PreBuildRejection(unit) = ""
  /\ try_stats' = MaybeRecordStat(<<>>, "kAttemptBytecodeCompilation")
  /\ pass_observer' = PassObserver(compiler_options)
  /\ try_log' = PreBuildEvents(unit) \o PrintHeader(PassObserver(compiler_options))
  /\ try_pc' = "build"
  /\ UNCHANGED <<unit, try_codegen, kIsDebugBuild, compiler_options,
                 jitVars, passVars, aotVars, emitVars>>

\* Lines 840-888, the build succeeds: the builder's scope is entered and left.
TryBuildGraph ==
  /\ try_pc = "build"
  /\ unit.build_result = "kAnalysisSuccess"
  /\ try_log' = try_log \o
       PassScope(pass_observer, kIsDebugBuild, kBuilderPassName, <<Step("BuildGraph")>>, TRUE)
  /\ try_pc' = "optimize"
  /\ UNCHANGED <<unit, try_stats, try_codegen, observerVars,
                 jitVars, passVars, aotVars, emitVars>>

\* Mutant: the early return leaves the builder's scope without telling the observer.
TryBuildGraphFail_NoExit ==
  /\ try_pc = "build"
  /\ unit.build_result # "kAnalysisSuccess"
  /\ try_stats' = MaybeRecordStat(try_stats, BuildFailureStat(unit.build_result))
  /\ pass_observer' = [pass_observer EXCEPT !.graph_in_bad_state_ = TRUE]
  /\ try_log' = try_log \o
       StartPass(pass_observer, kBuilderPassName) \o
       <<Step("BuildGraph"), Step("SetGraphInBadState")>> \o
       DestroyPassObserver(pass_observer')
  /\ try_pc' = "returned"
  /\ UNCHANGED <<unit, try_codegen, kIsDebugBuild, compiler_options,
                 jitVars, passVars, aotVars, emitVars>>

\* Lines 840-887, the build fails: the statistic of the failure is recorded, the graph is
\* marked bad, and the return destroys the scope and then the observer.
TryBuildGraphFail ==
  /\ try_pc = "build"
  /\ unit.build_result # "kAnalysisSuccess"
  /\ try_stats' = MaybeRecordStat(try_stats, BuildFailureStat(unit.build_result))
  /\ pass_observer' = [pass_observer EXCEPT !.graph_in_bad_state_ = TRUE]
  /\ try_log' = try_log \o
       StartPass(pass_observer, kBuilderPassName) \o
       <<Step("BuildGraph"), Step("SetGraphInBadState")>> \o
       EndPass(pass_observer', kIsDebugBuild, kBuilderPassName, TRUE) \o
       DestroyPassObserver(pass_observer')
  /\ try_pc' = "returned"
  /\ UNCHANGED <<unit, try_codegen, kIsDebugBuild, compiler_options,
                 jitVars, passVars, aotVars, emitVars>>

\* Line 890: the compilation kind decides which pipeline runs.
Baseline == unit.compilation_kind = "kBaseline"

\* Mutant: a baseline compile of a method runs the full pipeline after all.
TryRunOptimizationsFixed_AnyKind ==
  /\ try_pc = "optimize"
  /\ phase = "idle"
  /\ RunOptimizationsFixed

\* Lines 892-894 and 612-630: not a baseline compile, a list of passes is given.
TryRunOptimizationsOverride ==
  /\ try_pc = "optimize"
  /\ ~Baseline
  /\ phase = "idle"
  /\ RunOptimizationsOverride

\* Lines 892-894 and 632-693: not a baseline compile, no list of passes is given.
TryRunOptimizationsFixed ==
  /\ try_pc = "optimize"
  /\ ~Baseline
  /\ phase = "idle"
  /\ RunOptimizationsFixed

\* Lines 890-891 and 467-492: a baseline compile, the instruction set has a list.
RunBaselineOptimizations ==
  /\ try_pc = "optimize"
  /\ Baseline
  /\ phase = "idle"
  /\ HasBaselineOptimizations(instruction_set)
  /\ StartLoop(BaselineOptimizations(instruction_set))
  /\ graph_at_begin' = graph
  /\ pipeline_log' = <<>>
  /\ phase_returns' = <<>>
  /\ try_log' = Append(try_log, Step("RunBaselineOptimizations"))
  /\ phase' = "baseline"
  /\ UNCHANGED <<graph, instruction_set, pass_names, previous_run, tryVars,
                 jitVars, aotVars, emitVars>>

\* Lines 890-891 and 493-499: a baseline compile, the default case; nothing runs.
RunBaselineOptimizationsNone ==
  /\ try_pc = "optimize"
  /\ Baseline
  /\ phase = "idle"
  /\ ~HasBaselineOptimizations(instruction_set)
  /\ graph_at_begin' = graph
  /\ pipeline_log' = <<>>
  /\ phase_returns' = <<FALSE>>
  /\ try_log' = Append(try_log, Step("RunBaselineOptimizations"))
  /\ phase' = "done"
  /\ UNCHANGED <<run_pc, definitions, i, pass_changes, change, pass_log, graph,
                 instruction_set, pass_names, previous_run, tryVars,
                 jitVars, aotVars, emitVars>>

\* Lines 473-477 and 485-489: the loop on the baseline list has returned.
RunBaselineOptimizationsReturn ==
  /\ phase = "baseline"
  /\ run_pc = "returned"
  /\ pipeline_log' = pipeline_log \o pass_log
  /\ phase_returns' = Append(phase_returns, change)
  /\ phase' = "done"
  /\ UNCHANGED <<run_pc, definitions, i, pass_changes, change, pass_log, graph,
                 instruction_set, pass_names, graph_at_begin, previous_run, tryVars, try_log,
                 jitVars, aotVars, emitVars>>

\* The three scopes of AllocateRegisters, in the order of lines 580-599.
RegisterAllocationScopes ==
  << [pass_name |-> kPrepareForRegisterAllocationPassName,
      body |-> "PrepareForRegisterAllocation::Run"],
     [pass_name |-> kLivenessPassName, body |-> "liveness.Analyze"],
     [pass_name |-> kRegisterAllocatorPassName,
      body |-> "register_allocator->AllocateRegisters"] >>

\* Mutant: the liveness analysis is left out.
AllocateRegistersEvents_NoLiveness(observer, debug) ==
  <<Step("AllocateRegisters")>> \o
  PassScope(observer, debug, RegisterAllocationScopes[1].pass_name,
            <<Step(RegisterAllocationScopes[1].body)>>, TRUE) \o
  PassScope(observer, debug, RegisterAllocationScopes[3].pass_name,
            <<Step(RegisterAllocationScopes[3].body)>>, TRUE)

\* Lines 575-600: what AllocateRegisters does, under the observer it is handed.
AllocateRegistersEvents(observer, debug) ==
  <<Step("AllocateRegisters")>> \o
  PassScope(observer, debug, RegisterAllocationScopes[1].pass_name,
            <<Step(RegisterAllocationScopes[1].body)>>, TRUE) \o
  PassScope(observer, debug, RegisterAllocationScopes[2].pass_name,
            <<Step(RegisterAllocationScopes[2].body)>>, TRUE) \o
  PassScope(observer, debug, RegisterAllocationScopes[3].pass_name,
            <<Step(RegisterAllocationScopes[3].body)>>, TRUE)

\* Mutant: a pipeline in which no pass changed the graph fails the compile.
AllocateRegisters_FailsUnchanged ==
  /\ try_pc = "optimize"
  /\ phase = "done"
  /\ IF \E k \in DOMAIN phase_returns : phase_returns[k]
       THEN /\ try_log' = try_log \o AllocateRegistersEvents(pass_observer, kIsDebugBuild)
            /\ try_pc' = "generate"
       ELSE /\ try_log' = try_log \o DestroyPassObserver(pass_observer)
            /\ try_pc' = "returned"
  /\ UNCHANGED <<unit, try_stats, try_codegen, observerVars,
                 jitVars, passVars, aotVars, emitVars>>

\* Lines 896-902: the pipeline has returned; registers are allocated.
AllocateRegisters ==
  /\ try_pc = "optimize"
  /\ phase = "done"
  /\ try_log' = try_log \o AllocateRegistersEvents(pass_observer, kIsDebugBuild)
  /\ try_pc' = "generate"
  /\ UNCHANGED <<unit, try_stats, try_codegen, observerVars,
                 jitVars, passVars, aotVars, emitVars>>

\* Lines 904-908: the code is generated, the disassembly dumped, the success recorded;
\* the return destroys the observer.
TryCodegenCompile ==
  /\ try_pc = "generate"
  /\ try_log' = try_log \o <<Step("codegen->Compile")>> \o DumpDisassembly(pass_observer) \o
                  DestroyPassObserver(pass_observer)
  /\ try_stats' = MaybeRecordStat(try_stats, "kCompiledBytecode")
  /\ try_codegen' = TRUE
  /\ try_pc' = "returned"
  /\ UNCHANGED <<unit, observerVars, jitVars, passVars, aotVars, emitVars>>

(***************************************************************************)
(* Compile: one method compiled ahead of time.                             *)
(***************************************************************************)
\* What Compile can find of a method: what TryCompile finds, whether the method was
\* resolved, whether it is an intrinsic, and whether its intrinsic code is a leaf.
AotMethodInputs ==
  {m \in [isa_supported : BOOLEAN,
          pathological : BOOLEAN,
          space_filter : BOOLEAN,
          insns_size : (kSpaceFilterOptimizingThreshold - 1)..
                       (kSpaceFilterOptimizingThreshold + 1),
          codegen_created : BOOLEAN,
          build_result : GraphAnalysisResults,
          compilation_kind : {"kBaseline", "kOptimized"},
          method_resolved : BOOLEAN,
          is_intrinsic : BOOLEAN,
          is_leaf : BOOLEAN] :
     /\ m.is_intrinsic => m.method_resolved
     /\ ~m.is_intrinsic => m.is_leaf}

\* Emit(allocator, code_allocator, codegen, code_item): the artifact, not marked.
Emit(code_item) == [code_item |-> code_item, intrinsic |-> FALSE]

\* compiled_method->MarkAsIntrinsic()
MarkAsIntrinsic(artifact) == [artifact EXCEPT !.intrinsic = TRUE]

\* Lines 1016-1051: the locals of Compile; the method is resolved.
CompileBegin ==
  /\ aot_pc \in {"idle", "returned"}
  /\ aot_codegen' = FALSE
  /\ compiled_intrinsic' = FALSE
  /\ compiled_method' = <<>>
  /\ aot_events' = <<>>
  /\ aot_stats' = <<>>
  /\ aot_pc' = IF method.method_resolved /\ method.is_intrinsic
                THEN "intrinsic" ELSE "try_compile"
  /\ UNCHANGED <<method, jitVars, passVars, emitVars, tryVars, try_log>>

\* Mutant: the compile is flagged as an intrinsic as soon as the attempt is made.
CompileTryIntrinsic_FlagsAttempt ==
  /\ aot_pc = "intrinsic"
  /\ LET outcome == TryCompileIntrinsic(method)
     IN /\ aot_events' = aot_events \o <<"TryCompileIntrinsic">> \o outcome.events
        /\ aot_stats' = aot_stats \o outcome.stats
        /\ aot_codegen' = outcome.codegen
        /\ compiled_intrinsic' = TRUE
        /\ aot_pc' = IF outcome.codegen THEN "emit" ELSE "try_compile"
  /\ UNCHANGED <<method, compiled_method, jitVars, passVars, emitVars, tryVars, try_log>>

\* Lines 1052-1064: try to compile a fully intrinsified implementation.
CompileTryIntrinsic ==
  /\ aot_pc = "intrinsic"
  /\ LET outcome == TryCompileIntrinsic(method)
     IN /\ aot_events' = aot_events \o <<"TryCompileIntrinsic">> \o outcome.events
        /\ aot_stats' = aot_stats \o outcome.stats
        /\ aot_codegen' = outcome.codegen
        /\ compiled_intrinsic' = outcome.codegen
        /\ aot_pc' = IF outcome.codegen THEN "emit" ELSE "try_compile"
  /\ UNCHANGED <<method, compiled_method, jitVars, passVars, emitVars, tryVars, try_log>>

\* Lines 1065-1076: no code generator yet; TryCompile, baseline if the options say so.
CompileTryCompile ==
  /\ aot_pc = "try_compile"
  /\ LET outcome == TryCompile(method)
     IN /\ aot_events' = aot_events \o <<"TryCompile">> \o outcome.events
        /\ aot_stats' = aot_stats \o outcome.stats
        /\ aot_codegen' = outcome.codegen
        /\ aot_pc' = IF outcome.codegen THEN "emit" ELSE "returned"
  /\ UNCHANGED <<method, compiled_intrinsic, compiled_method, jitVars, passVars, emitVars, tryVars, try_log>>

\* Mutant: the artifact of an intrinsic is returned as Emit made it.
CompileEmit_Unmarked ==
  /\ aot_pc = "emit"
  /\ aot_codegen
  /\ compiled_method' = IF compiled_intrinsic THEN <<Emit("nullptr")>> ELSE <<Emit("code_item")>>
  /\ aot_events' = aot_events \o <<"Emit">>
  /\ aot_pc' = "returned"
  /\ UNCHANGED <<method, aot_codegen, compiled_intrinsic, aot_stats, jitVars, passVars, emitVars, tryVars, try_log>>

\* Lines 1078-1085: a code generator was returned; package its code.
CompileEmit ==
  /\ aot_pc = "emit"
  /\ aot_codegen
  /\ compiled_method' =
       IF compiled_intrinsic
         THEN <<MarkAsIntrinsic(Emit("nullptr"))>>
         ELSE <<Emit("code_item")>>
  /\ aot_events' = aot_events \o
       (IF compiled_intrinsic THEN <<"Emit", "MarkAsIntrinsic">> ELSE <<"Emit">>)
  /\ aot_pc' = "returned"
  /\ UNCHANGED <<method, aot_codegen, compiled_intrinsic, aot_stats, jitVars, passVars, emitVars, tryVars, try_log>>

(***************************************************************************)
(* JniCompile (lines 1134-1203).                                           *)
(***************************************************************************)
\* What JniCompile can find of a native method: whether the compiler builds the boot image,
\* whether the method was resolved, is an intrinsic, is signature polymorphic, and what
\* TryCompileIntrinsic finds.
JniMethodInputs ==
  {m \in [isa_supported : BOOLEAN,
          codegen_created : BOOLEAN,
          is_boot_image : BOOLEAN,
          method_resolved : BOOLEAN,
          is_intrinsic : BOOLEAN,
          is_signature_polymorphic : BOOLEAN,
          is_leaf : BOOLEAN] :
     /\ m.is_intrinsic => m.method_resolved
     /\ m.is_signature_polymorphic => m.method_resolved
     /\ ~m.is_intrinsic => m.is_leaf}

\* Lines 1196-1202: the artifact of the JNI stub, made without Emit and not marked.
JniStubCompiledMethod == [code_item |-> "nullptr", intrinsic |-> FALSE]

\* Lines 1138-1150: the locals of JniCompile; for the boot image the method is looked up.
JniCompileBegin ==
  /\ aot_pc \in {"idle", "returned"}
  /\ aot_codegen' = FALSE
  /\ compiled_intrinsic' = FALSE
  /\ compiled_method' = <<>>
  /\ aot_events' = <<>>
  /\ aot_stats' = <<>>
  /\ aot_pc' = IF /\ method.is_boot_image
                  /\ method.method_resolved /\ method.is_intrinsic
                  /\ ~method.is_signature_polymorphic
                THEN "jni_intrinsic" ELSE "jni_stub"
  /\ UNCHANGED <<method, jitVars, passVars, emitVars, tryVars, try_log>>

\* Lines 1151-1174: try to compile a fully intrinsified implementation.
JniCompileTryIntrinsic ==
  /\ aot_pc = "jni_intrinsic"
  /\ LET outcome == TryCompileIntrinsic(method)
     IN /\ aot_events' = aot_events \o <<"TryCompileIntrinsic">> \o outcome.events
        /\ aot_stats' = aot_stats \o outcome.stats
        /\ aot_codegen' = outcome.codegen
        /\ aot_pc' = IF outcome.codegen THEN "jni_emit" ELSE "jni_stub"
  /\ UNCHANGED <<method, compiled_intrinsic, compiled_method, jitVars, passVars, emitVars, tryVars, try_log>>

\* Lines 1175-1182: the intrinsic compiled; package its code, mark it and return it.
JniCompileEmit ==
  /\ aot_pc = "jni_emit"
  /\ aot_codegen
  /\ compiled_method' = <<MarkAsIntrinsic(Emit("nullptr"))>>
  /\ aot_events' = aot_events \o <<"Emit", "MarkAsIntrinsic">>
  /\ aot_pc' = "returned"
  /\ UNCHANGED <<method, aot_codegen, compiled_intrinsic, aot_stats, jitVars, passVars, emitVars, tryVars, try_log>>

\* Lines 1186-1202: the JNI stub, its stack map and its artifact.
JniCompileStub ==
  /\ aot_pc = "jni_stub"
  /\ aot_events' = aot_events \o
       <<"ArtQuickJniCompileMethod", "CreateJniStackMap", "SwapAllocCompiledMethod">>
  /\ aot_stats' = MaybeRecordStat(aot_stats, "kCompiledNativeStub")
  /\ compiled_method' = <<JniStubCompiledMethod>>
  /\ aot_pc' = "returned"
  /\ UNCHANGED <<method, aot_codegen, compiled_intrinsic, jitVars, passVars, emitVars, tryVars, try_log>>

(***************************************************************************)
(* Emit (lines 698-737): linker patches, the compiled method, thunk code.   *)
(***************************************************************************)
\* patch.LiteralOffset(): the places in the code that patches apply to.
LiteralOffsets == {4, 8, 12}

\* patch.GetType(): one kind that needs no thunk, two that do.
PatchTypes == {"kMethodRelative", "kCallRelative", "kBakerReadBarrierBranch"}

LinkerPatches == [literal_offset : LiteralOffsets, type : PatchTypes]

\* codegen->EmitLinkerPatches(&linker_patches): at most MaxPatches patches in any order,
\* each applying to a place of its own.
EmitLinkerPatches ==
  {s \in UNION {[1..n -> LinkerPatches] : n \in 0..MaxPatches} :
     \A j \in DOMAIN s, k \in DOMAIN s :
       j # k => s[j].literal_offset # s[k].literal_offset}

\* The comparison of lines 704-706.
LiteralOffsetLess(lhs, rhs) == lhs.literal_offset < rhs.literal_offset

\* The sequence without its element at position k.
Without(s, k) == [j \in 1..(Len(s) - 1) |-> IF j < k THEN s[j] ELSE s[j + 1]]

\* std::sort with the comparison of lines 704-706: an element that none is less than goes
\* first, the rest is sorted after it.
RECURSIVE SortByLiteralOffset(_)
SortByLiteralOffset(patches) ==
  IF patches = <<>>
    THEN <<>>
    ELSE LET k == CHOOSE k \in DOMAIN patches :
                    \A j \in DOMAIN patches : ~LiteralOffsetLess(patches[j], patches[k])
         IN <<patches[k]>> \o SortByLiteralOffset(Without(patches, k))

\* Mutant: the patches are returned in the order they were emitted in.
EmitAndSortLinkerPatches_Unsorted(emitted) == emitted

\* Lines 698-709.
EmitAndSortLinkerPatches(emitted) == SortByLiteralOffset(emitted)

\* codegen->NeedsThunkCode(patch)
NeedsThunkCode(p) == p.type \in {"kCallRelative", "kBakerReadBarrierBranch"}

\* The signature under which the storage keeps the thunk of a patch.
ThunkMapKey(p) == p.type

\* codegen->EmitThunkCode(patch, &code, &debug_name), as synthesized by compile t.
EmitThunkCode(p, t) == [thunk |-> ThunkMapKey(p), by |-> t]

\* storage->GetThunkCode(patch): the code kept under the signature of the patch.
GetThunkCode(map, p) == {e.code : e \in {f \in map : f.key = ThunkMapKey(p)}}

\* A storage that adds an entry whether or not the signature has one.
SetThunkCode_Insert(map, p, code) == map \cup {[key |-> ThunkMapKey(p), code |-> code]}

\* storage->SetThunkCode(patch, code, debug_name): the entry is added unless the
\* signature has one already.
SetThunkCode(map, p, code) ==
  IF GetThunkCode(map, p) = {}
    THEN map \cup {[key |-> ThunkMapKey(p), code |-> code]}
    ELSE map

NoPatch == [literal_offset |-> 0, type |-> "none"]

\* A call Emit made: on which patch, and whether the storage held no thunk code under the
\* signature of the patch when the call was made.
EmitCall(op, p, empty) == [op |-> op, patch |-> p, empty |-> empty]

\* Lines 715-725: the patches sorted, the stack maps built, the compiled method allocated.
EmitPackage(t) ==
  /\ emit_pc[t] = "idle"
  /\ LET sorted == EmitAndSortLinkerPatches(emitted_patches[t])
     IN /\ linker_patches' = [linker_patches EXCEPT ![t] = sorted]
        /\ packaged_patches' = [packaged_patches EXCEPT ![t] = <<sorted>>]
  /\ emit_log' = [emit_log EXCEPT ![t] =
                    <<EmitCall("EmitAndSortLinkerPatches", NoPatch, FALSE),
                      EmitCall("BuildStackMaps", NoPatch, FALSE),
                      EmitCall("SwapAllocCompiledMethod", NoPatch, FALSE)>>]
  /\ patch' = [patch EXCEPT ![t] = 1]
  /\ emit_pc' = [emit_pc EXCEPT ![t] = "loop"]
  /\ UNCHANGED <<emitted_patches, thunk_map, jitVars, passVars, aotVars, tryVars, try_log>>

\* Mutant: thunk code is synthesized for every patch that needs it.
EmitThunkTest_NoLookup(t) ==
  /\ emit_pc[t] = "loop"
  /\ patch[t] <= Len(linker_patches[t])
  /\ LET p == linker_patches[t][patch[t]]
     IN IF NeedsThunkCode(p)
          THEN /\ emit_log' = [emit_log EXCEPT ![t] =
                    Append(@, EmitCall("GetThunkCode", p, GetThunkCode(thunk_map, p) = {}))]
               /\ emit_pc' = [emit_pc EXCEPT ![t] = "thunk"]
               /\ UNCHANGED patch
          ELSE /\ patch' = [patch EXCEPT ![t] = @ + 1]
               /\ UNCHANGED <<emit_log, emit_pc>>
  /\ UNCHANGED <<emitted_patches, linker_patches, packaged_patches, thunk_map,
                 jitVars, passVars, aotVars, tryVars, try_log>>

\* Line 728: the condition of the if, on the next patch. The storage is asked only for a
\* patch that needs thunk code.
EmitThunkTest(t) ==
  /\ emit_pc[t] = "loop"
  /\ patch[t] <= Len(linker_patches[t])
  /\ LET p == linker_patches[t][patch[t]]
     IN IF NeedsThunkCode(p)
          THEN /\ emit_log' = [emit_log EXCEPT ![t] =
                    Append(@, EmitCall("GetThunkCode", p, GetThunkCode(thunk_map, p) = {}))]
               /\ IF GetThunkCode(thunk_map, p) = {}
                    THEN /\ emit_pc' = [emit_pc EXCEPT ![t] = "thunk"]
                         /\ UNCHANGED patch
                    ELSE /\ patch' = [patch EXCEPT ![t] = @ + 1]
                         /\ UNCHANGED emit_pc
          ELSE /\ patch' = [patch EXCEPT ![t] = @ + 1]
               /\ UNCHANGED <<emit_log, emit_pc>>
  /\ UNCHANGED <<emitted_patches, linker_patches, packaged_patches, thunk_map,
                 jitVars, passVars, aotVars, tryVars, try_log>>

\* Mutant: the thunk code is kept next to whatever the storage holds under the signature.
EmitThunk_KeepsBoth(t) ==
  /\ emit_pc[t] = "thunk"
  /\ LET p == linker_patches[t][patch[t]]
     IN /\ thunk_map' = SetThunkCode_Insert(thunk_map, p, EmitThunkCode(p, t))
        /\ emit_log' = [emit_log EXCEPT ![t] =
             Append(Append(@, EmitCall("EmitThunkCode", p, FALSE)),
                    EmitCall("SetThunkCode", p, GetThunkCode(thunk_map, p) = {}))]
  /\ patch' = [patch EXCEPT ![t] = @ + 1]
  /\ emit_pc' = [emit_pc EXCEPT ![t] = "loop"]
  /\ UNCHANGED <<emitted_patches, linker_patches, packaged_patches, jitVars, passVars, aotVars, tryVars, try_log>>

\* Lines 729-732: the thunk code is synthesized and handed to the storage.
EmitThunk(t) ==
  /\ emit_pc[t] = "thunk"
  /\ LET p == linker_patches[t][patch[t]]
     IN /\ thunk_map' = SetThunkCode(thunk_map, p, EmitThunkCode(p, t))
        /\ emit_log' = [emit_log EXCEPT ![t] =
             Append(Append(@, EmitCall("EmitThunkCode", p, FALSE)),
                    EmitCall("SetThunkCode", p, GetThunkCode(thunk_map, p) = {}))]
  /\ patch' = [patch EXCEPT ![t] = @ + 1]
  /\ emit_pc' = [emit_pc EXCEPT ![t] = "loop"]
  /\ UNCHANGED <<emitted_patches, linker_patches, packaged_patches, jitVars, passVars, aotVars, tryVars, try_log>>

\* Mutant: Emit returns from inside the loop, patches still to be looked at.
EmitReturn_BeforeLoopEnds(t) ==
  /\ emit_pc[t] = "loop"
  /\ emit_pc' = [emit_pc EXCEPT ![t] = "returned"]
  /\ UNCHANGED <<emitted_patches, linker_patches, patch, packaged_patches, emit_log,
                 thunk_map, jitVars, passVars, aotVars, tryVars, try_log>>

\* Line 736: the loop is over.
EmitReturn(t) ==
  /\ emit_pc[t] = "loop"
  /\ patch[t] > Len(linker_patches[t])
  /\ emit_pc' = [emit_pc EXCEPT ![t] = "returned"]
  /\ UNCHANGED <<emitted_patches, linker_patches, patch, packaged_patches, emit_log,
                 thunk_map, jitVars, passVars, aotVars, tryVars, try_log>>

(***************************************************************************)
(* Specifications.                                                         *)
(***************************************************************************)
\* No Emit is under way and the storage holds no thunk code.
InitEmit ==
  /\ emit_pc = [t \in Compiles |-> "idle"]
  /\ emitted_patches = [t \in Compiles |-> <<>>]
  /\ linker_patches = [t \in Compiles |-> <<>>]
  /\ patch = [t \in Compiles |-> 0]
  /\ packaged_patches = [t \in Compiles |-> <<>>]
  /\ emit_log = [t \in Compiles |-> <<>>]
  /\ thunk_map = {}

\* No method is being compiled.
NoMethod == <<>>

\* No TryCompile is under way.
InitTry ==
  /\ try_pc = "idle"
  /\ unit = NoMethod
  /\ kIsDebugBuild = FALSE
  /\ compiler_options = NoOptions
  /\ pass_observer = PassObserver(NoOptions)
  /\ try_log = <<>>
  /\ try_stats = <<>>
  /\ try_codegen = FALSE

\* No compile is under way and the cache is empty; the code of each method has one of
\* the sizes.
InitJitOn(sizes) ==
  /\ pc = [t \in Compiles |-> "idle"]
  /\ is_native = [t \in Compiles |-> FALSE]
  /\ jit_logger = [t \in Compiles |-> FALSE]
  /\ critical_debuggable = [t \in Compiles |-> FALSE]
  /\ codegen = [t \in Compiles |-> FALSE]
  /\ reserved_code = [t \in Compiles |-> NoExtent]
  /\ reserved_data = [t \in Compiles |-> NoExtent]
  /\ calls = [t \in Compiles |-> <<>>]
  /\ stats = [t \in Compiles |-> <<>>]
  /\ result = [t \in Compiles |-> "pending"]
  /\ cache = [e \in Extents |-> [state |-> "free", owner |-> NoOwner]]
  /\ entry_point = [t \in Compiles |-> NoExtent]
  /\ entry_at_begin = [t \in Compiles |-> NoExtent]
  /\ stack_map = [t \in Compiles |-> <<>>]
  /\ code_size \in [Compiles -> sizes]

InitJit == InitJitOn({MaxCodeSize})

\* No pipeline run is under way.
InitPipeline ==
  /\ phase = "idle"
  /\ instruction_set = "kNone"
  /\ pass_names = NullPassNames
  /\ pipeline_log = <<>>
  /\ phase_returns = <<>>
  /\ graph_at_begin = 0
  /\ previous_run = <<>>

InitAot ==
  /\ aot_pc = "idle"
  /\ method = NoMethod
  /\ aot_codegen = FALSE
  /\ compiled_intrinsic = FALSE
  /\ aot_events = <<>>
  /\ aot_stats = <<>>
  /\ compiled_method = <<>>

InitPasses ==
  /\ run_pc = "idle"
  /\ definitions = <<>>
  /\ i = 0
  /\ pass_changes = [p \in PassIds |-> FALSE]
  /\ change = FALSE
  /\ pass_log = <<>>
  /\ graph = 0
  /\ InitPipeline

Init ==
  /\ InitJit
  /\ InitEmit
  /\ InitTry
  /\ InitAot
  /\ generate_debug_info \in BOOLEAN
  /\ InitPasses

Next ==
  \E t \in Compiles :
    \/ JitCompileBegin(t)
    \/ JitNativeRefuse(t)
    \/ JitNativeCompileStub(t)
    \/ JitNativeReserveOk(t)
    \/ JitNativeReserveFail(t)
    \/ JitNativeFill(t)
    \/ JitNativeCommitOk(t)
    \/ JitNativeCommitFail(t)
    \/ JitNativeFree(t)
    \/ JitNativePost(t)
    \/ JitTryCompileFail(t)
    \/ JitTryCompileOk(t)
    \/ JitReserveOk(t)
    \/ JitReserveFail(t)
    \/ JitFill(t)
    \/ JitCommitOk(t)
    \/ JitCommitFail(t)
    \/ JitFree(t)
    \/ JitPost(t)

Spec == Init /\ [][Next]_vars

\* JitCompile of two methods whose code differs in size, with debug info generated.
InitJitReserve ==
  /\ InitJitOn(1..MaxCodeSize)
  /\ code_size["t1"] < code_size["t2"]
  /\ InitEmit
  /\ InitTry
  /\ InitAot
  /\ generate_debug_info = TRUE
  /\ InitPasses

\* Each thread compiles one method, which is not native.
NextJitReserve ==
  \E t \in Compiles :
    \/ pc[t] = "idle" /\ JitCompileBegin(t) /\ ~is_native'[t]
    \/ JitTryCompileFail(t)
    \/ JitTryCompileOk(t)
    \/ JitReserveOk(t)
    \/ JitReserveFail(t)
    \/ JitFill(t)
    \/ JitCommitOk(t)
    \/ JitCommitFail(t)
    \/ JitFree(t)
    \/ JitPost(t)

SpecJitReserve == InitJitReserve /\ [][NextJitReserve]_vars

\* RunOptimizations is handed any definition sequence of at most MaxLen entries.
InitRunOptimizations ==
  /\ InitJit
  /\ InitEmit
  /\ InitTry
  /\ InitAot
  /\ generate_debug_info = FALSE
  /\ run_pc = "idle"
  /\ definitions \in DefinitionSeqs
  /\ i = 0
  /\ pass_changes = [p \in PassIds |-> FALSE]
  /\ change = FALSE
  /\ pass_log = <<>>
  \* the graph admits a rewrite by every pass of the sequence
  /\ graph = MaxLen
  /\ InitPipeline

NextPasses ==
  \/ RunOptimizationsBegin
  \/ ExecutePass
  \/ SkipPass
  \/ RunOptimizationsReturn

SpecPasses == InitRunOptimizations /\ [][NextPasses]_vars

\* The pipeline on one method: the graph as the builder left it, the instruction set
\* and the list of passes to run, if any, as the compiler options give them.
InitRunPipeline ==
  /\ InitJit
  /\ InitEmit
  /\ InitTry
  /\ InitAot
  /\ generate_debug_info = FALSE
  /\ run_pc = "idle"
  /\ definitions = <<>>
  /\ i = 0
  /\ pass_changes = [p \in PassIds |-> FALSE]
  /\ change = FALSE
  /\ pass_log = <<>>
  /\ graph \in 0..MaxRewrites
  /\ phase = "idle"
  /\ instruction_set \in InstructionSets
  /\ pass_names \in {NullPassNames} \cup {[null |-> FALSE, names |-> l] : l \in PassNameLists}
  /\ pipeline_log = <<>>
  /\ phase_returns = <<>>
  /\ graph_at_begin = 0
  /\ previous_run = <<>>

\* Within a pipeline run the loop is entered by the pipeline only.
NextPipeline ==
  \/ RunOptimizationsOverride
  \/ RunOptimizationsFixed
  \/ RunArchOptimizations
  \/ RunArchOptimizationsNone
  \/ RunOptimizationsDone
  \/ ExecutePass
  \/ SkipPass
  \/ RunOptimizationsReturn

SpecPipeline == InitRunPipeline /\ [][NextPipeline]_vars

\* Compile on one method, whatever its checks will find of it.
InitCompile ==
  /\ InitJit
  /\ InitEmit
  /\ InitTry
  /\ generate_debug_info = FALSE
  /\ InitPasses
  /\ aot_pc = "idle"
  /\ method \in AotMethodInputs
  /\ aot_codegen = FALSE
  /\ compiled_intrinsic = FALSE
  /\ aot_events = <<>>
  /\ aot_stats = <<>>
  /\ compiled_method = <<>>

NextCompile ==
  \/ CompileBegin
  \/ CompileTryIntrinsic
  \/ CompileTryCompile
  \/ CompileEmit

SpecCompile == InitCompile /\ [][NextCompile]_vars

\* The compiler is called on a method ahead of time: Compile on a method with code,
\* JniCompile on a native one.
InitAotCompile ==
  /\ InitJit
  /\ InitEmit
  /\ InitTry
  /\ generate_debug_info = FALSE
  /\ InitPasses
  /\ aot_pc = "idle"
  /\ method \in AotMethodInputs \cup JniMethodInputs
  /\ aot_codegen = FALSE
  /\ compiled_intrinsic = FALSE
  /\ aot_events = <<>>
  /\ aot_stats = <<>>
  /\ compiled_method = <<>>

NextJniCompile ==
  \/ JniCompileBegin
  \/ JniCompileTryIntrinsic
  \/ JniCompileEmit
  \/ JniCompileStub

NextAotCompile ==
  \/ method \in AotMethodInputs /\ NextCompile
  \/ method \in JniMethodInputs /\ NextJniCompile

SpecAotCompile == InitAotCompile /\ [][NextAotCompile]_vars

\* Emit is yet to be called on the methods of the two compiles.
InitEmitOn(emitted) ==
  /\ InitJit
  /\ InitTry
  /\ InitAot
  /\ generate_debug_info = FALSE
  /\ InitPasses
  /\ emit_pc = [t \in Compiles |-> "idle"]
  /\ emitted_patches \in emitted
  /\ linker_patches = [t \in Compiles |-> <<>>]
  /\ patch = [t \in Compiles |-> 0]
  /\ packaged_patches = [t \in Compiles |-> <<>>]
  /\ emit_log = [t \in Compiles |-> <<>>]
  /\ thunk_map = {}

NextEmit ==
  \E t \in Compiles :
    \/ EmitPackage(t)
    \/ EmitThunkTest(t)
    \/ EmitThunk(t)
    \/ EmitReturn(t)

\* Emit on the methods of two compiles that share one storage, whatever patches the
\* code generator of each emits. The loop of lines 727-734 runs over the sorted list, so
\* one order of emission is taken for every set of patches: the descending one.
InitEmitThunks ==
  InitEmitOn([Compiles -> {s \in EmitLinkerPatches :
                             \A j \in DOMAIN s, k \in DOMAIN s :
                               j < k => s[j].literal_offset > s[k].literal_offset}])

SpecEmit == InitEmitThunks /\ [][NextEmit]_vars

\* Emit on a method whose patches the code generator emits in any order, next to a
\* compile of a method that has no patches.
InitEmitPatches ==
  InitEmitOn({f \in [Compiles -> EmitLinkerPatches] :
                \E t \in Compiles : \A u \in Compiles \ {t} : f[u] = <<>>})

SpecEmitPatches == InitEmitPatches /\ [][NextEmit]_vars

\* The pass loop and the pipeline are idle, on the given instruction set, list of passes
\* to run and graph.
InitPipelineOn(isa, names, rewrites) ==
  /\ run_pc = "idle"
  /\ definitions = <<>>
  /\ i = 0
  /\ pass_changes = [p \in PassIds |-> FALSE]
  /\ change = FALSE
  /\ pass_log = <<>>
  /\ graph = rewrites
  /\ phase = "idle"
  /\ instruction_set = isa
  /\ pass_names = names
  /\ pipeline_log = <<>>
  /\ phase_returns = <<>>
  /\ graph_at_begin = 0
  /\ previous_run = <<>>

\* TryCompile is yet to be called, in the given build, under the given options, on the
\* given method.
InitTryOn(debug, options, m) ==
  /\ InitJit
  /\ InitEmit
  /\ InitAot
  /\ generate_debug_info = FALSE
  /\ try_pc = "idle"
  /\ unit = m
  /\ kIsDebugBuild = debug
  /\ compiler_options = options
  /\ pass_observer = PassObserver(NoOptions)
  /\ try_log = <<>>
  /\ try_stats = <<>>
  /\ try_codegen = FALSE

\* A method that passes the checks that precede the graph build: of the instruction set,
\* of pathology and of the space filter.
BuiltUnit(isa, build_result, kind) ==
  [isa_supported |-> IsInstructionSetSupported(isa),
   pathological |-> FALSE,
   space_filter |-> FALSE,
   insns_size |-> kSpaceFilterOptimizingThreshold,
   codegen_created |-> TRUE,
   build_result |-> build_result,
   compilation_kind |-> kind]

\* Options that ask for timing and visualization of every method.
DumpOptions ==
  [dump_pass_timings |-> TRUE, dump_cfg |-> TRUE, verbose_methods |-> {},
   method_name |-> <<"f">>]

\* TryCompile on one method: in a debug or a release build, with the observer's timing
\* and visualization on or off, for any instruction set and compilation kind. A method
\* that is rejected, or whose graph build fails, reaches no pass: it is taken as a method
\* to optimize under no list of passes to run. A graph that is built admits at most
\* MaxBuiltRewrites rewrites: none when the observer times and dumps, one for Thumb-2 and
\* Arm64 only, more for Arm64 only. A list of passes to run is given for Thumb-2 in a
\* release build, to an observer that neither times nor dumps, on a graph that admits no
\* rewrite or, for a method to optimize, one.
InitTryCompile ==
  \E debug \in BOOLEAN, options \in {NoOptions, DumpOptions}, isa \in InstructionSets :
    \/ \E kind \in CompilationKinds, rewrites \in 0..MaxBuiltRewrites :
         \E names \in {NullPassNames} \cup
                       (IF /\ rewrites = 0 \/ (rewrites = 1 /\ kind = "kOptimized")
                           /\ ~debug /\ options = NoOptions /\ isa = "kThumb2"
                          THEN {[null |-> FALSE, names |-> l] : l \in PassNameLists}
                          ELSE {}) :
           /\ IsInstructionSetSupported(isa)
           /\ rewrites > 0 => (options = NoOptions /\ isa \in {"kThumb2", "kArm64"})
           /\ rewrites > 1 => (isa = "kArm64" /\ kind # "kOsr")
           /\ InitTryOn(debug, options, BuiltUnit(isa, "kAnalysisSuccess", kind))
           /\ InitPipelineOn(isa, names, rewrites)
    \/ \E m \in MethodInputs :
         /\ m.isa_supported = IsInstructionSetSupported(isa)
         /\ TryCompileRejection(m) # ""
         /\ m.compilation_kind = "kOptimized"
         /\ m.insns_size = kSpaceFilterOptimizingThreshold + 1
         /\ InitTryOn(debug, options, m)
         /\ InitPipelineOn(isa, NullPassNames, 0)

\* Every instruction set that passes the check of lines 758-762 has a list of its own, so
\* the default case of RunArchOptimizations is not reached from TryCompile.
NextTryCompile ==
  \/ TryCompileReject
  \/ TryCompileBegin
  \/ TryBuildGraph
  \/ TryBuildGraphFail
  \/ TryRunOptimizationsOverride
  \/ TryRunOptimizationsFixed
  \/ RunArchOptimizations
  \/ RunOptimizationsDone
  \/ RunBaselineOptimizations
  \/ RunBaselineOptimizationsNone
  \/ RunBaselineOptimizationsReturn
  \/ ExecutePass
  \/ SkipPass
  \/ RunOptimizationsReturn
  \/ AllocateRegisters
  \/ TryCodegenCompile

SpecTryCompile == InitTryCompile /\ [][NextTryCompile]_vars

\* The observer of a baseline compile for Thumb-2, under any options: timing and
\* visualization asked for or not, a list of verbose methods configured or not, the
\* method on it or not. The graph build succeeds or is skipped.
InitObserver ==
  \E debug \in BOOLEAN, options \in CompilerOptions,
     build_result \in {"kAnalysisSuccess", "kAnalysisSkipped"} :
    /\ InitTryOn(debug, options, BuiltUnit("kThumb2", build_result, "kBaseline"))
    /\ InitPipelineOn("kThumb2", NullPassNames, 0)

NextObserver ==
  \/ TryCompileBegin
  \/ TryBuildGraph
  \/ TryBuildGraphFail
  \/ RunBaselineOptimizations
  \/ RunBaselineOptimizationsReturn
  \/ ExecutePass
  \/ RunOptimizationsReturn
  \/ AllocateRegisters
  \/ TryCodegenCompile

SpecObserver == InitObserver /\ [][NextObserver]_vars

(***************************************************************************)
(* Properties of JitCompile (checked under Spec).                          *)
(***************************************************************************)
CallsOf(t, op) == {k \in DOMAIN calls[t] : calls[t][k].op = op}
Succeeded(t, op) == {k \in CallsOf(t, op) : calls[t][k].ok}
Failed(t, op) == {k \in CallsOf(t, op) : ~calls[t][k].ok}
SameExtents(a, b) == a.code = b.code /\ a.data = b.data
Returned(t) == pc[t] = "returned"

\* Extents the cache still holds provisionally for compile t.
Provisional(t) == {e \in Extents : cache[e].state = "reserved" /\ cache[e].owner = t}

\* C1: when JitCompile has returned (native or bytecode path), every successful Reserve
\* of that compile was followed by exactly one of a successful Commit or a Free on the
\* reserved extents, and the cache holds no provisional extent of the compile.
C1_ReserveSettledOnReturn ==
  \A t \in Compiles :
    Returned(t) =>
      /\ Provisional(t) = {}
      /\ \A r \in Succeeded(t, "Reserve") :
           Cardinality({k \in Succeeded(t, "Commit") \cup CallsOf(t, "Free") :
                          k > r /\ SameExtents(calls[t][k], calls[t][r])}) = 1

\* Witness of C1: one compile returned after freeing its reservation on the bytecode
\* path while another returned after committing its reservation on the native path.
C1_Witness ==
  \E t, u \in Compiles :
    /\ Returned(t) /\ ~is_native[t] /\ CallsOf(t, "Free") # {}
    /\ Returned(u) /\ is_native[u] /\ Succeeded(u, "Commit") # {}

\* C2: when Reserve succeeded and Commit then failed, JitCompile called Free with exactly
\* the code and data extents Reserve returned, returned false, left the method's entry
\* point as it was, and made no AddMemoryUsage or WriteLog call.
C2_CommitFailureFreesSameExtents ==
  \A t \in Compiles :
    (Returned(t) /\ Failed(t, "Commit") # {}) =>
      /\ result[t] = "false"
      /\ \E r \in Succeeded(t, "Reserve") :
           /\ calls[t][r].code # NoExtent /\ calls[t][r].data # NoExtent
           /\ \E f \in CallsOf(t, "Free") : SameExtents(calls[t][f], calls[t][r])
           /\ \A f \in CallsOf(t, "Free") : SameExtents(calls[t][f], calls[t][r])
      /\ entry_point[t] = entry_at_begin[t]
      /\ entry_point[t] # reserved_code[t]
      /\ CallsOf(t, "AddMemoryUsage") = {}
      /\ CallsOf(t, "WriteLog") = {}

\* Witness of C2: a native compile that had a logger and an earlier published entry
\* point returned after its Commit failed.
C2_Witness ==
  \E t \in Compiles :
    /\ Returned(t) /\ is_native[t] /\ jit_logger[t]
    /\ Failed(t, "Commit") # {}
    /\ entry_at_begin[t] # NoExtent

\* C3: when Reserve failed, JitCompile recorded kJitOutOfMemoryForCommit (once), returned
\* false, and called neither Commit nor Free.
C3_ReserveFailure ==
  \A t \in Compiles :
    (Returned(t) /\ Failed(t, "Reserve") # {}) =>
      /\ result[t] = "false"
      /\ Cardinality({k \in DOMAIN stats[t] : stats[t][k] = "kJitOutOfMemoryForCommit"}) = 1
      /\ CallsOf(t, "Commit") = {}
      /\ CallsOf(t, "Free") = {}
      /\ Provisional(t) = {}

\* Witness of C3: a bytecode compile returned after Reserve failed on a full cache.
C3_Witness ==
  \E t \in Compiles :
    /\ Returned(t) /\ ~is_native[t]
    /\ Failed(t, "Reserve") # {}
    /\ ~CanReserve

\* C4: JitCompile returns true exactly when Commit was called and succeeded; every other
\* return is false.
C4_TrueIffCommitted ==
  \A t \in Compiles :
    Returned(t) =>
      /\ result[t] \in {"true", "false"}
      /\ (result[t] = "true") <=> (Succeeded(t, "Commit") # {})

\* Witness of C4: a native compile returned true and a bytecode compile returned false
\* because TryCompile gave no code generator.
C4_Witness ==
  \E t, u \in Compiles :
    /\ Returned(t) /\ is_native[t] /\ result[t] = "true"
    /\ Returned(u) /\ Failed(u, "TryCompile") # {} /\ result[u] = "false"

\* C5: every Free call of a compile is preceded by a successful Reserve of the same
\* compile returning the extents freed, is not preceded by a successful Commit, and is
\* the only Free call of that compile.
C5_FreeOnlyUncommittedReservation ==
  \A t \in Compiles :
    \A f \in CallsOf(t, "Free") :
      /\ \E r \in Succeeded(t, "Reserve") : r < f /\ SameExtents(calls[t][f], calls[t][r])
      /\ {c \in Succeeded(t, "Commit") : c < f} = {}
      /\ CallsOf(t, "Free") = {f}

\* Witness of C5: a bytecode compile called Free.
C5_Witness ==
  \E t \in Compiles : ~is_native[t] /\ CallsOf(t, "Free") # {} /\ Failed(t, "Commit") # {}

(***************************************************************************)
(* Properties of RunOptimizations (checked under SpecPasses).              *)
(* pass_log[j] is the visit of definitions[j] (loop index j - 1).          *)
(***************************************************************************)
Max(S) == CHOOSE x \in S : \A y \in S : x >= y

\* Earlier positions of the sequence holding the pass identity that position j depends on.
PriorOccurrences(j) == {k \in 1..(j - 1) : definitions[k].pass = definitions[j].depends_on}
MostRecentOccurrence(j) == Max(PriorOccurrences(j))

\* The visit at position k executed the pass and the pass reported a change.
Changed(k) == pass_log[k].executed /\ pass_log[k].pass_change

\* C6: in every step of the loop the pass at the current position is executed if and only
\* if the bitset entry of its depends_on is true when the position is reached; positions
\* are visited in program order, each one once.
C6_ExecutedIffDependencyBitSet ==
  [][/\ (run_pc = "loop" /\ i' # i) =>
          /\ i < Len(definitions)
          /\ i' = i + 1
          /\ Len(pass_log') = Len(pass_log) + 1
          /\ pass_log'[Len(pass_log')].pos = i
          /\ pass_log'[Len(pass_log')].executed <=>
               pass_changes[definitions[i + 1].depends_on]
     /\ (run_pc' # "idle") =>
          /\ Len(pass_log') = i'
          /\ \A k \in DOMAIN pass_log' : pass_log'[k].pos = k - 1
    ]_vars

\* Witness of C6: a run that has executed one pass and skipped another.
C6_Witness ==
  /\ run_pc = "returned"
  /\ \E j, k \in DOMAIN pass_log : pass_log[j].executed /\ ~pass_log[k].executed

\* C7: a pass whose depends_on resolves to an earlier occurrence that was skipped, or that
\* ran and reported no change, is skipped, and right after the skip its own bitset entry
\* is false.
C7_SkipPropagates ==
  \A j \in DOMAIN pass_log :
    (PriorOccurrences(j) # {} /\ ~Changed(MostRecentOccurrence(j))) =>
      /\ ~pass_log[j].executed
      /\ (j = Len(pass_log)) => ~pass_changes[definitions[j].pass]

\* Witness of C7: a pass skipped because the most recent occurrence of its dependency was
\* itself skipped, while an earlier occurrence of the skipped pass had changed the graph.
C7_Witness ==
  \E j \in DOMAIN pass_log :
    /\ j = Len(pass_log)
    /\ PriorOccurrences(j) # {}
    /\ ~pass_log[MostRecentOccurrence(j)].executed
    /\ ~pass_log[j].executed
    /\ \E k \in 1..(j - 1) : definitions[k].pass = definitions[j].pass /\ Changed(k)

\* C8: the sentinel entry is true at every point of a run, and every pass whose
\* depends_on is the sentinel kNone is executed, whatever happened before it.
C8_SentinelAlwaysSatisfied ==
  /\ (run_pc \in {"loop", "returned"}) => pass_changes[kNone]
  /\ \A j \in DOMAIN pass_log :
       (definitions[j].depends_on = kNone) => pass_log[j].executed

\* Witness of C8: a pass depending on the sentinel executed after an earlier pass was
\* skipped and another reported no change.
C8_Witness ==
  \E j \in DOMAIN pass_log :
    /\ definitions[j].depends_on = kNone /\ pass_log[j].executed
    /\ \E k \in 1..(j - 1) : ~pass_log[k].executed
    /\ \E k \in 1..(j - 1) : pass_log[k].executed /\ ~pass_log[k].pass_change

\* C9: right after a pass executed, the bitset entry of its own identity equals the
\* boolean its Run() reported, whatever the entry held before.
C9_OutcomeIsWhatRunReported ==
  (run_pc \in {"loop", "returned"} /\ pass_log # <<>> /\ pass_log[Len(pass_log)].executed) =>
    pass_changes[definitions[Len(pass_log)].pass] = pass_log[Len(pass_log)].pass_change

\* Witness of C9: the pass executed last reported no change while an earlier occurrence of
\* the same identity had reported a change.
C9_Witness ==
  /\ pass_log # <<>>
  /\ pass_log[Len(pass_log)].executed
  /\ ~pass_log[Len(pass_log)].pass_change
  /\ \E k \in 1..(Len(pass_log) - 1) :
       definitions[k].pass = definitions[Len(pass_log)].pass /\ Changed(k)

\* C10: a pass depending on an identity that occurred earlier is executed if and only if
\* the most recent earlier occurrence of that identity ran and reported a change; older
\* occurrences do not count.
C10_MostRecentOccurrenceGates ==
  \A j \in DOMAIN pass_log :
    (PriorOccurrences(j) # {}) =>
      (pass_log[j].executed <=> Changed(MostRecentOccurrence(j)))

\* Witness of C10: a pass was skipped although an older occurrence of its dependency had
\* changed the graph, because the most recent occurrence ran and reported no change.
C10_Witness ==
  \E j \in DOMAIN pass_log :
    /\ PriorOccurrences(j) # {}
    /\ \E k \in PriorOccurrences(j) : k < MostRecentOccurrence(j) /\ Changed(k)
    /\ pass_log[MostRecentOccurrence(j)].executed
    /\ ~pass_log[MostRecentOccurrence(j)].pass_change
    /\ ~pass_log[j].executed

\* C11: RunOptimizations returns true if and only if at least one pass of the sequence
\* was executed and reported a change; it returns false when every pass was skipped or
\* reported no change, and for the empty sequence.
C11_ReturnsWhetherAnyPassChanged ==
  (run_pc = "returned") =>
    /\ change <=> (\E j \in DOMAIN pass_log : Changed(j))
    /\ (definitions = <<>>) => ~change

\* Witness of C11: a run returned true although the pass executed last reported no change
\* and another pass was skipped.
C11_Witness ==
  /\ run_pc = "returned"
  /\ change
  /\ pass_log # <<>>
  /\ pass_log[Len(pass_log)].executed /\ ~pass_log[Len(pass_log)].pass_change
  /\ \E j \in DOMAIN pass_log : ~pass_log[j].executed
\* The pipeline variables keep their shapes.
PipelineTypeOK ==
  /\ phase \in {"idle", "override", "fixed", "arch", "done"}
  /\ graph \in 0..MaxRewrites
  /\ Len(phase_returns) <= 2
  /\ Len(previous_run) <= 1
\* The three simplifications that follow the inliner in the fixed list.
PostInliningNames ==
  {"constant_folding$after_inlining", "instruction_simplifier$after_inlining",
   "dead_code_elimination$after_inlining"}

\* In a log of the fixed list, the inliner was executed and reported a change.
InlinerChangedIn(log) ==
  \E k \in DOMAIN log :
    log[k].pass = "kInliner" /\ log[k].executed /\ log[k].pass_change

\* In a log of the fixed list, the positions of the three post-inlining passes.
PostInliningIn(log) == {j \in DOMAIN log : log[j].pass_name \in PostInliningNames}

\* C12: in the fixed full pipeline each of the three post-inlining passes is executed if
\* and only if the inliner reported a change, and every other pass of the fixed list is
\* executed unconditionally.
C12_PostInliningIffInlinerChanged ==
  (phase = "fixed") =>
    /\ \A j \in DOMAIN pass_log :
         /\ pass_log[j].pass_name = FixedOptimizations[j].pass_name
         /\ IF j \in PostInliningIn(pass_log)
              THEN pass_log[j].executed <=> InlinerChangedIn(pass_log)
              ELSE pass_log[j].executed
    /\ (run_pc = "returned") =>
         /\ Len(pass_log) = Len(FixedOptimizations)
         /\ Cardinality(PostInliningIn(pass_log)) = 3

\* The fixed list has run to its end: the inliner changed the graph and the three passes
\* were executed, one of them changing the graph again.
C12_Witness ==
  /\ phase = "fixed"
  /\ run_pc = "returned"
  /\ InlinerChangedIn(pass_log)
  /\ Cardinality(PostInliningIn(pass_log)) = 3
  /\ \A j \in PostInliningIn(pass_log) : pass_log[j].executed
  /\ \E j \in PostInliningIn(pass_log) : pass_log[j].pass_change
\* The longest prefix of a name that holds no separator.
UpToFirstSeparator(name) ==
  LET clean == {k \in 0..Len(name) : \A l \in 1..k : name[l] # "$"}
  IN  SubSeq(name, 1, Cardinality(clean) - 1)

FixedPipelineOnFixedPoint ==
  /\ phase \in {"fixed", "arch", "done"}
  /\ pass_names.null
  /\ graph_at_begin = 0

\* C14: re-running the full fixed pipeline on a graph that is already a fixed point leaves
\* the graph unchanged and reports no change (no executed pass reports one, and every call
\* of the loop returns false), and a second such run executes the same passes with the same
\* outcomes as the first.
C14_FixedPointRerunIsNoOp ==
  FixedPipelineOnFixedPoint =>
    /\ graph = graph_at_begin
    /\ \A j \in DOMAIN pass_log : ~pass_log[j].pass_change
    /\ \A j \in DOMAIN pipeline_log : ~pipeline_log[j].pass_change
    /\ \A r \in DOMAIN phase_returns : ~phase_returns[r]
    /\ (run_pc = "returned") => ~change
    /\ (phase = "done" /\ previous_run # <<>> /\ previous_run[1].graph_at_begin = 0) =>
         /\ pipeline_log = previous_run[1].log
         /\ phase_returns = previous_run[1].returns
         /\ graph = previous_run[1].graph_at_end

\* The fixed list and the list of the instruction set have run twice on a graph that is a
\* fixed point.
C14_Witness ==
  /\ FixedPipelineOnFixedPoint
  /\ phase = "done"
  /\ HasArchOptimizations(instruction_set)
  /\ Len(phase_returns) = 2
  /\ Len(pipeline_log) = Len(FixedOptimizations) + Len(ArchOptimizations(instruction_set))
  /\ \E j \in DOMAIN pipeline_log : ~pipeline_log[j].executed
  /\ previous_run # <<>>
  /\ previous_run[1].graph_at_begin = 0
  /\ previous_run[1].log = pipeline_log
\* C15: in JitCompile debug info is generated, when enabled, strictly after a successful
\* Reserve, for the code address Reserve gave, and strictly before Commit is called, on the
\* native and on the bytecode path alike; it is generated at most once, only when enabled,
\* never in a compile whose Reserve failed, and always before Commit when enabled.
C15_DebugInfoBetweenReserveAndCommit ==
  \A t \in Compiles :
    /\ \A g \in CallsOf(t, "GenerateJitDebugInfo") :
         /\ generate_debug_info
         /\ \E r \in Succeeded(t, "Reserve") :
              r < g /\ calls[t][g].code = calls[t][r].code
         /\ \A c \in CallsOf(t, "Commit") : g < c
    /\ Cardinality(CallsOf(t, "GenerateJitDebugInfo")) <= 1
    /\ (Failed(t, "Reserve") # {}) => CallsOf(t, "GenerateJitDebugInfo") = {}
    /\ (generate_debug_info /\ CallsOf(t, "Commit") # {}) =>
         CallsOf(t, "GenerateJitDebugInfo") # {}

\* With debug info enabled, a native compile and a bytecode compile have both generated it
\* and called Commit.
C15_Witness ==
  /\ generate_debug_info
  /\ \E t \in Compiles, u \in Compiles :
       /\ is_native[t] /\ ~is_native[u]
       /\ Returned(t) /\ Returned(u)
       /\ CallsOf(t, "GenerateJitDebugInfo") # {} /\ Succeeded(t, "Commit") # {}
       /\ CallsOf(u, "GenerateJitDebugInfo") # {} /\ CallsOf(u, "Commit") # {}
\* The operations compile t has called, in order, debug info generation left out.
NativeOps(t) ==
  LET ops == [k \in DOMAIN calls[t] |-> calls[t][k].op]
  IN  SelectSeq(ops, LAMBDA op : op # "GenerateJitDebugInfo")

\* The order of the native path.
NativeOrder == <<"ArtQuickJniCompileMethod", "CreateJniStackMap", "Reserve", "Commit">>

\* Compile t went through no graph construction and no pass: on the JIT these are all
\* inside TryCompile.
NoGraphNoPasses(t) == CallsOf(t, "TryCompile") = {} /\ CallsOf(t, "BuildStackMaps") = {}

\* Compile t holds the stack map of a JNI stub, with no dex register.
HasJniStackMap(t) ==
  /\ Len(stack_map[t]) = 1
  /\ stack_map[t][1].origin = "CreateJniStackMap"
  /\ stack_map[t][1].num_dex_registers = 0

\* C16, as stated: every JIT compile of a native method builds no graph and runs no pass,
\* synthesizes a stack map with zero dex registers, and attempts Reserve.
C16_EveryNativeCompileReserves ==
  \A t \in Compiles :
    (is_native[t] /\ Returned(t)) =>
      /\ NoGraphNoPasses(t)
      /\ HasJniStackMap(t)
      /\ CallsOf(t, "Reserve") # {}

\* C16, amended: a JIT compile of a critical native method in a debuggable runtime returns
\* false at once, with no stack map and nothing reserved; every other JIT compile of a
\* native method builds no graph and runs no pass, synthesizes a stack map with zero dex
\* registers, and goes straight to Reserve and, if Reserve succeeds, to Commit.
C16_NativeCompileReservesUnlessRefused ==
  \A t \in Compiles :
    (is_native[t] /\ pc[t] \notin {"idle", "native_entry"}) =>
      /\ NoGraphNoPasses(t)
      /\ IF critical_debuggable[t]
           THEN /\ Returned(t) /\ result[t] = "false"
                /\ calls[t] = <<>>
                /\ stack_map[t] = <<>>
           ELSE /\ HasJniStackMap(t)
                /\ \A k \in 1..Len(NativeOps(t)) : k <= 4 => NativeOps(t)[k] = NativeOrder[k]
                /\ Returned(t) => CallsOf(t, "Reserve") # {}
                /\ (Returned(t) /\ Succeeded(t, "Reserve") # {}) => CallsOf(t, "Commit") # {}

\* One native compile went through Reserve and Commit and returned true; another, of a
\* critical native method in a debuggable runtime, was refused.
C16_Witness ==
  \E t \in Compiles, u \in Compiles :
    /\ is_native[t] /\ ~critical_debuggable[t]
    /\ Returned(t) /\ result[t] = "true"
    /\ HasJniStackMap(t)
    /\ Succeeded(t, "Commit") # {}
    /\ is_native[u] /\ critical_debuggable[u]
    /\ Returned(u) /\ result[u] = "false"
\* The steps that construct a graph or run a pass on one, the graph builder included.
GraphOrPassSteps ==
  {"HGraph", "BuildGraph", "BuildIntrinsicGraph", "RunOptimizations",
   "RunBaselineOptimizations", "RunArchOptimizations", "AllocateRegisters"}

Occurs(step, events) == \E k \in DOMAIN events : events[k] = step

\* The steps of this compile from its call of the given function on ("" if not called).
StepsFrom(function) ==
  IF Occurs(function, aot_events)
    THEN LET k == CHOOSE k \in DOMAIN aot_events : aot_events[k] = function
         IN  SubSeq(aot_events, k + 1, Len(aot_events))
    ELSE <<>>

\* The steps of this compile inside TryCompileIntrinsic.
IntrinsicSteps ==
  IF Occurs("TryCompileIntrinsic", aot_events)
    THEN LET from == StepsFrom("TryCompileIntrinsic")
             ends == {k \in DOMAIN from : from[k] \in {"TryCompile", "Emit"}}
         IN  IF ends = {} THEN from ELSE SubSeq(from, 1, Min(ends) - 1)
    ELSE <<>>

\* Compile has returned for a pathological method on a supported instruction set.
PathologicalCompiled ==
  /\ aot_pc = "returned"
  /\ method.pathological
  /\ method.isa_supported

ReachedSpaceFilter ==
  /\ aot_pc = "returned"
  /\ Occurs("TryCompile", aot_events)
  /\ method.space_filter
  /\ method.isa_supported /\ ~method.pathological

\* C18: under the space filter, with threshold T = 128 code units, a method of T + 1 code
\* units is rejected with the space-filter classification, nothing having been built; a
\* method of exactly T code units is not rejected by the filter, and is compiled when a
\* code generator exists for it and its graph builds.
C18_SpaceFilterThreshold ==
  ReachedSpaceFilter =>
    /\ (method.insns_size = 128 + 1) =>
         /\ aot_stats[Len(aot_stats)] = "kNotCompiledSpaceFilter"
         /\ compiled_method = <<>>
         /\ StepsFrom("TryCompile") =
              <<"IsInstructionSetSupported", "IsPathologicalCase", "SpaceFilter">>
    /\ (method.insns_size = 128) =>
         /\ ~Occurs("kNotCompiledSpaceFilter", aot_stats)
         /\ Occurs("HGraph", StepsFrom("TryCompile"))
         /\ (method.codegen_created /\ method.build_result = "kAnalysisSuccess") =>
              /\ compiled_method # <<>>
              /\ aot_stats[Len(aot_stats)] = "kCompiledBytecode"
              /\ Occurs("codegen->Compile", StepsFrom("TryCompile"))

\* A method of T + 1 code units was rejected by the filter.
C18_Witness ==
  /\ ReachedSpaceFilter
  /\ method.insns_size = kSpaceFilterOptimizingThreshold + 1
  /\ aot_stats = <<"kAttemptBytecodeCompilation", "kNotCompiledSpaceFilter">>
  /\ compiled_method = <<>>
\* Compile has returned for an intrinsic whose code, once registers were allocated, was
\* found not to be a leaf.
NonLeafIntrinsicCompiled ==
  /\ aot_pc = "returned"
  /\ method.method_resolved /\ method.is_intrinsic
  /\ method.isa_supported /\ method.codegen_created
  /\ ~method.is_leaf

\* C19: in Compile an intrinsic whose code generator is not a leaf method after register
\* allocation is dropped by the intrinsic attempt without code being generated; the compile
\* falls through to TryCompile, and the artifact that results, if TryCompile compiles the
\* method, is an ordinary one, not marked as an intrinsic.
C19_NonLeafIntrinsicFallsThrough ==
  NonLeafIntrinsicCompiled =>
    /\ Len(IntrinsicSteps) >= 2
    /\ IntrinsicSteps[Len(IntrinsicSteps)] = "IsLeafMethod"
    /\ IntrinsicSteps[Len(IntrinsicSteps) - 1] = "AllocateRegisters"
    /\ ~Occurs("codegen->Compile", IntrinsicSteps)
    /\ ~Occurs("kCompiledIntrinsic", aot_stats)
    /\ Occurs("TryCompile", StepsFrom("TryCompileIntrinsic"))
    /\ ~compiled_intrinsic
    /\ ~Occurs("MarkAsIntrinsic", aot_events)
    /\ (compiled_method # <<>>) <=> TryCompile(method).codegen
    /\ (compiled_method # <<>>) =>
         /\ ~compiled_method[1].intrinsic
         /\ compiled_method[1].code_item = "code_item"
         /\ Occurs("codegen->Compile", StepsFrom("TryCompile"))

\* Such an intrinsic was dropped, compiled by TryCompile and packaged unmarked.
C19_Witness ==
  /\ NonLeafIntrinsicCompiled
  /\ compiled_method # <<>>
  /\ ~compiled_method[1].intrinsic
  /\ aot_stats = <<"kAttemptIntrinsicCompilation", "kAttemptBytecodeCompilation",
                   "kCompiledBytecode">>
\* The statistics that classify a method as not compiled.
BuildFailureStats == {BuildFailureStat(r) : r \in GraphAnalysisResults \ {"kAnalysisSuccess"}}
ClassificationStats ==
  {"kNotCompiledUnsupportedIsa", "kNotCompiledPathological", "kNotCompiledSpaceFilter",
   "kNotCompiledNoCodegen", "kJitOutOfMemoryForCommit"} \cup BuildFailureStats

\* The classification statistics compile t has recorded, in order.
Classifications(t) == SelectSeq(stats[t], LAMBDA s : s \in ClassificationStats)

\* Compile t has returned without compiling its method.
NotCompiled(t) == Returned(t) /\ result[t] = "false"

\* Where a compile that did not compile its method gave up, read off what it called.
RejectionPoint(t) ==
  LET n == Len(calls[t])
  IN  IF n = 0 THEN "critical native refusal"
      ELSE IF calls[t][n].op = "Free" THEN "commit failure"
      ELSE IF calls[t][n].op = "Reserve" THEN "cache full"
      ELSE CASE calls[t][n - 1].op = "IsInstructionSetSupported" -> "unsupported ISA"
             [] calls[t][n - 1].op = "IsPathologicalCase" -> "pathological"
             [] calls[t][n - 1].op = "SpaceFilter" -> "space filter"
             [] calls[t][n - 1].op = "CodeGenerator::Create" -> "no code generator"
             [] calls[t][n - 1].op = "SetGraphInBadState" -> "graph-build failure"

\* The statistics a rejection point may record.
StatsOf(point) ==
  CASE point = "unsupported ISA" -> {"kNotCompiledUnsupportedIsa"}
    [] point = "pathological" -> {"kNotCompiledPathological"}
    [] point = "space filter" -> {"kNotCompiledSpaceFilter"}
    [] point = "no code generator" -> {"kNotCompiledNoCodegen"}
    [] point = "graph-build failure" -> BuildFailureStats
    [] point = "cache full" -> {"kJitOutOfMemoryForCommit"}
    [] OTHER -> {}

\* The rejection points that record nothing.
SilentPoints == {"commit failure", "critical native refusal"}

\* C20, as stated: every path on which a method ends up not compiled records a
\* classification statistic.
C20_EveryRejectionRecordsAStatistic ==
  \A t \in Compiles : NotCompiled(t) => Classifications(t) # <<>>

\* C20, amended: a compile rejected by TryCompile (unsupported ISA, pathological, space
\* filter, no code generator, graph-build failure) or by a failed Reserve (cache full)
\* records exactly one classification statistic, the one of its rejection point, and
\* compiles rejected at distinct points record distinct statistics; a compile given up
\* after a failed Commit, or refused as a critical native method in a debuggable runtime,
\* records no classification statistic; every such compile returns false.
C20_RejectionStatistics ==
  /\ \A t \in Compiles :
       NotCompiled(t) =>
         IF RejectionPoint(t) \in SilentPoints
           THEN Classifications(t) = <<>>
           ELSE /\ Len(Classifications(t)) = 1
                /\ Classifications(t)[1] \in StatsOf(RejectionPoint(t))
                /\ stats[t][Len(stats[t])] = Classifications(t)[1]
  /\ \A t \in Compiles, u \in Compiles :
       (/\ NotCompiled(t) /\ NotCompiled(u)
        /\ RejectionPoint(t) \notin SilentPoints /\ RejectionPoint(u) \notin SilentPoints
        /\ RejectionPoint(t) # RejectionPoint(u)) =>
         Classifications(t) # Classifications(u)
  /\ \A t \in Compiles : Returned(t) => result[t] \in {"true", "false"}

\* One compile was rejected as pathological and recorded it; the other gave up after a
\* failed Commit and recorded no classification.
C20_Witness ==
  \E t \in Compiles, u \in Compiles :
    /\ NotCompiled(t) /\ RejectionPoint(t) = "pathological"
    /\ Classifications(t) = <<"kNotCompiledPathological">>
    /\ NotCompiled(u) /\ RejectionPoint(u) = "commit failure"
    /\ ~is_native[u]
    /\ Classifications(u) = <<>>
\* TryCompile would reject the method at one of its first three checks.
RejectedByEligibilityChecks(m) ==
  \/ ~m.isa_supported
  \/ m.pathological
  \/ m.space_filter /\ m.insns_size > 128

\* The steps that build an intrinsic graph or run a pass on it.
IntrinsicGraphSteps ==
  {"BuildIntrinsicGraph", "RunOptimizations", "RunArchOptimizations", "AllocateRegisters"}

Holding(t) ==
  pc[t] \in {"native_fill", "native_commit", "native_free", "fill", "commit", "free"}

\* The extents compile t was given by its Reserve.
Reservation(t) == {reserved_code[t], reserved_data[t]}

\* C25: with JIT compiles interleaved on independent threads against one code cache, every
\* Commit and every Free of a compile is applied to the extents its own Reserve returned;
\* while a compile holds a reservation the extents are its own in the cache and no other
\* compile holds them; and once every compile has returned no extent is provisional, each
\* reservation having been committed or freed exactly once.
C25_ConcurrentCompilesKeepToTheirReservations ==
  /\ \A t \in Compiles :
       /\ \A k \in CallsOf(t, "Commit") \cup CallsOf(t, "Free") :
            \E r \in Succeeded(t, "Reserve") :
              /\ r < k
              /\ SameExtents(calls[t][k], calls[t][r])
              /\ calls[t][r].code # NoExtent /\ calls[t][r].data # NoExtent
       /\ Holding(t) =>
            /\ \A e \in Reservation(t) :
                 e \in Extents /\ cache[e] = [state |-> "reserved", owner |-> t]
            /\ \A u \in Compiles \ {t} :
                 Holding(u) => Reservation(t) \cap Reservation(u) = {}
  /\ (\A t \in Compiles : Returned(t)) =>
       /\ \A e \in Extents : cache[e].state # "reserved"
       /\ \A t \in Compiles : \A r \in Succeeded(t, "Reserve") :
            Cardinality({k \in Succeeded(t, "Commit") \cup CallsOf(t, "Free") : k > r}) = 1

\* Both compiles have returned; one freed the first two extents and the other committed
\* the next two, which it can only have been given while the first still held its own.
C25_Witness ==
  \E t \in Compiles, u \in Compiles :
    /\ Returned(t) /\ Returned(u)
    /\ \E f \in CallsOf(t, "Free") : calls[t][f].code = 1 /\ calls[t][f].data = 2
    /\ \E c \in Succeeded(u, "Commit") : calls[u][c].code = 3 /\ calls[u][c].data = 4
    /\ \A e \in Extents : cache[e].state = IF e \in {3, 4} THEN "committed" ELSE "free"
(***************************************************************************)
(* Properties of Emit (checked under SpecEmitPatches and SpecEmit).        *)
(***************************************************************************)
\* How many positions of the sequence hold the element.
Count(s, x) == Cardinality({k \in DOMAIN s : s[k] = x})

IsPermutation(s, r) ==
  /\ Len(s) = Len(r)
  /\ \A x \in LinkerPatches : Count(s, x) = Count(r, x)

StrictlyAscending(s) ==
  \A j \in DOMAIN s, k \in DOMAIN s : j < k => s[j].literal_offset < s[k].literal_offset

EmitCallsOf(t, op) == {k \in DOMAIN emit_log[t] : emit_log[t][k].op = op}

\* The thunk code the storage holds under the signature of the patch.
StoredThunks(p) == GetThunkCode(thunk_map, p)

\* The patches of the compiled method of compile t that need thunk code.
ThunkPatches(t) ==
  IF packaged_patches[t] = <<>>
    THEN {}
    ELSE {packaged_patches[t][1][k] : k \in {j \in DOMAIN packaged_patches[t][1] :
                                               NeedsThunkCode(packaged_patches[t][1][j])}}

\* C23: over the Emit calls that share one storage, thunk code is synthesized and
\* registered for a patch only if the patch needs thunk code and the storage, when asked,
\* held none under the signature of the patch; the storage is asked for no patch that
\* needs none; patches of one method with the same signature make Emit synthesize once;
\* a blob is in the storage only by a SetThunkCode made when the signature had none;
\* and once the calls have returned, each signature that a patch of a compiled method
\* needs has exactly one stored blob, the one every such patch resolves to.
C23_ThunkSynthesizedOnlyWhenAbsent ==
  /\ \A t \in Compiles :
       /\ \A k \in EmitCallsOf(t, "EmitThunkCode") \cup EmitCallsOf(t, "SetThunkCode") :
            \E g \in EmitCallsOf(t, "GetThunkCode") :
              /\ g < k /\ k <= g + 2
              /\ emit_log[t][g].patch = emit_log[t][k].patch
              /\ emit_log[t][g].empty
              /\ NeedsThunkCode(emit_log[t][k].patch)
       /\ \A g \in EmitCallsOf(t, "GetThunkCode") : NeedsThunkCode(emit_log[t][g].patch)
       /\ \A j \in EmitCallsOf(t, "SetThunkCode"), k \in EmitCallsOf(t, "SetThunkCode") :
            j # k => ThunkMapKey(emit_log[t][j].patch) # ThunkMapKey(emit_log[t][k].patch)
  /\ \A e \in thunk_map :
       \E t \in Compiles : \E k \in EmitCallsOf(t, "SetThunkCode") :
         /\ emit_log[t][k].empty
         /\ e.key = ThunkMapKey(emit_log[t][k].patch)
         /\ e.code = EmitThunkCode(emit_log[t][k].patch, t)
  /\ (\A t \in Compiles : emit_pc[t] = "returned") =>
       \A t \in Compiles : \A p \in ThunkPatches(t) : Cardinality(StoredThunks(p)) = 1

\* Both calls have returned. One compile synthesized the thunk of a signature that two
\* patches of its method share, once; the other, whose method needs the same signature,
\* found it in the storage and synthesized none; a patch that needs none was passed over.
C23_Witness ==
  \E t \in Compiles : \E u \in Compiles \ {t} :
    /\ emit_pc[t] = "returned" /\ emit_pc[u] = "returned"
    /\ \E p \in ThunkPatches(t), q \in ThunkPatches(t), r \in ThunkPatches(u) :
         /\ p # q /\ ThunkMapKey(p) = ThunkMapKey(q) /\ ThunkMapKey(r) = ThunkMapKey(p)
         /\ StoredThunks(r) = {EmitThunkCode(p, t)}
    /\ Cardinality(EmitCallsOf(t, "SetThunkCode")) = 1
    /\ Cardinality(EmitCallsOf(t, "GetThunkCode")) = 2
    /\ EmitCallsOf(u, "SetThunkCode") = {}
    /\ EmitCallsOf(u, "GetThunkCode") # {}
    /\ \E k \in DOMAIN packaged_patches[u][1] : ~NeedsThunkCode(packaged_patches[u][1][k])

C24_StoredThunkSurvives == [][thunk_map \subseteq thunk_map']_vars

DidAt(op) == {k \in DOMAIN try_log : try_log[k].op = op}

IsScopeEvent(e) == e.op \in {"StartPass", "EndPass"}

\* The entries and exits of scopes, in order.
ScopeEvents == SelectSeq(try_log, IsScopeEvent)

\* The steps of the coarse view of TryCompile.
IsTryCompileStep(e) ==
  e.op \in PreBuildSteps \cup
    {"BuildGraph", "SetGraphInBadState", "RunBaselineOptimizations", "RunOptimizations",
     "AllocateRegisters", "codegen->Compile", "DumpDisassembly"}

\* TryCompile step by step takes the steps that TryCompile(m) lists, records the
\* statistics it lists and returns what it returns.
TryCompileStepsAgree ==
  (try_pc = "returned") =>
    LET steps == SelectSeq(try_log, IsTryCompileStep)
    IN /\ [k \in DOMAIN steps |-> steps[k].op] = TryCompileEvents(unit)
       /\ try_stats = TryCompile(unit).stats
       /\ try_codegen = TryCompile(unit).codegen

\* What a scope around one step leaves in the log of an observer that neither times nor
\* dumps, in a release build.
BareScope(scope) ==
  << Did("StartPass", scope.pass_name, FALSE), Step(scope.body),
     Did("EndPass", scope.pass_name, TRUE) >>

IsScopeOrBody(e) ==
  \/ IsScopeEvent(e)
  \/ e.op \in {RegisterAllocationScopes[k].body : k \in DOMAIN RegisterAllocationScopes}

\* The log from position a on.
LogFrom(a) == SubSeq(try_log, a, Len(try_log))

\* C26: register allocation is the three steps prepare, liveness, allocation, in that
\* order, none skipped, each inside a scope of its own; it is run once in a compile that
\* reaches it, and never twice; every optimization pass of the compile has run before it
\* and the code is generated after it.
C26_RegisterAllocationThreeScopedSteps ==
  /\ Cardinality(DidAt("AllocateRegisters")) <= 1
  /\ (try_pc \in {"generate", "returned"} /\ TryCompileRejection(unit) = "") =>
       Cardinality(DidAt("AllocateRegisters")) = 1
  /\ \A k \in DOMAIN RegisterAllocationScopes :
       DidAt(RegisterAllocationScopes[k].body) # {} => DidAt("AllocateRegisters") # {}
  /\ \A a \in DidAt("AllocateRegisters") :
       /\ SelectSeq(LogFrom(a + 1), IsScopeOrBody) =
            BareScope(RegisterAllocationScopes[1]) \o BareScope(RegisterAllocationScopes[2]) \o
            BareScope(RegisterAllocationScopes[3])
       /\ \A k \in DOMAIN RegisterAllocationScopes :
            Cardinality(DidAt(RegisterAllocationScopes[k].body)) = 1
       /\ \A r \in DidAt("Run") \cup DidAt("RunOptimizations")
                    \cup DidAt("RunBaselineOptimizations") \cup DidAt("BuildGraph") : r < a
       /\ phase = "done" /\ run_pc \in {"idle", "returned"}
       /\ \A c \in DidAt("codegen->Compile") :
            \A e \in DidAt("EndPass") \cup DidAt("GraphChecker") : e < c
  /\ (try_pc = "returned" /\ try_codegen) =>
       Cardinality(DidAt("codegen->Compile")) = 1 /\ DidAt("AllocateRegisters") # {}

\* A compile of the full pipeline has returned its code generator: passes were run, one
\* reported a change, and registers were allocated before the code was generated.
C26_Witness ==
  /\ try_pc = "returned" /\ try_codegen
  /\ ~Baseline
  /\ \E r \in DidAt("Run") : try_log[r].flag
  /\ \E a \in DidAt("AllocateRegisters") : \E c \in DidAt("codegen->Compile") : a < c
  /\ Cardinality(DidAt("StartPass")) > 3

\* C27: scopes are entered and left in pairs: every StartPass of a pass is followed by
\* the EndPass of that pass before any other StartPass, on every path, the early return
\* after a failed graph build included; so enters and exits are equal in number.
C27_ScopesEnteredAndLeftInPairs ==
  /\ LET scopes == ScopeEvents
     IN /\ Len(scopes) % 2 = 0
        /\ \A k \in DOMAIN scopes :
             IF k % 2 = 1
               THEN /\ scopes[k].op = "StartPass"
                    /\ scopes[k + 1].op = "EndPass"
                    /\ scopes[k + 1].pass_name = scopes[k].pass_name
               ELSE scopes[k].op = "EndPass"
  /\ Cardinality(DidAt("StartPass")) = Cardinality(DidAt("EndPass"))
  /\ \A r \in DidAt("Run") \cup DidAt("BuildGraph") :
       /\ \E s \in (r - 3)..(r - 1) :
            /\ s >= 1 /\ try_log[s].op = "StartPass"
            /\ \A k \in (s + 1)..(r - 1) : try_log[k].op \in {"DumpGraph", "StartTiming"}
       /\ \E e \in (r + 1)..(r + 2) :
            /\ e <= Len(try_log) /\ try_log[e].op = "EndPass"
            /\ \A k \in (r + 1)..(e - 1) : try_log[k].op = "SetGraphInBadState"

\* The graph build failed: TryCompile has returned early, out of the builder's scope,
\* which was entered and left.
C27_Witness ==
  /\ try_pc = "returned" /\ ~try_codegen
  /\ unit.build_result # "kAnalysisSuccess"
  /\ DidAt("SetGraphInBadState") # {}
  /\ Cardinality(DidAt("StartPass")) = 1
  /\ Cardinality(DidAt("EndPass")) = 1

\* The exit of a scope at position e of the log is followed by a validation of the graph
\* before anything but the observer's own timing and dumping happens.
ValidatedAt(e) ==
  \E g \in (e + 1)..(e + 3) :
    /\ g <= Len(try_log) /\ try_log[g].op = "GraphChecker"
    /\ \A k \in (e + 1)..(g - 1) : try_log[k].op \in {"EndTiming", "DumpGraph"}

\* C28: on the exit of a pass the graph is validated if and only if the build is a debug
\* build and the graph has not been marked bad; when the graph build fails the graph is
\* marked bad before the builder's scope is left, so that exit validates nothing; in a
\* release build no exit validates; and nothing but an exit validates.
C28_ValidationOnExitIffDebugAndGraphGood ==
  /\ LET marked == DidAt("SetGraphInBadState")
     IN \A e \in DidAt("EndPass") :
          ValidatedAt(e) <=> (kIsDebugBuild /\ \A b \in marked : e < b)
  /\ \A g \in DidAt("GraphChecker") : \E e \in (g - 3)..(g - 1) :
       /\ e >= 1 /\ try_log[e].op = "EndPass"
       /\ \A k \in (e + 1)..(g - 1) : try_log[k].op \in {"EndTiming", "DumpGraph"}
       /\ try_log[g].flag = try_log[e].flag
  /\ Cardinality(DidAt("GraphChecker")) <= Cardinality(DidAt("EndPass"))
  /\ (try_pc = "returned" /\ PreBuildRejection(unit) = ""
        /\ unit.build_result # "kAnalysisSuccess") =>
       /\ pass_observer.graph_in_bad_state_
       /\ \E b \in DidAt("SetGraphInBadState") : \E e \in DidAt("EndPass") :
            b < e /\ ~ValidatedAt(e)
       /\ DidAt("GraphChecker") = {}
  /\ ~kIsDebugBuild => DidAt("GraphChecker") = {}
  /\ DidAt("SetGraphInBadState") # {} <=>
       (try_pc = "returned" /\ PreBuildRejection(unit) = ""
          /\ unit.build_result # "kAnalysisSuccess")

\* In a debug build the graph build has failed: the builder's scope was left without a
\* validation.
C28_Witness ==
  /\ kIsDebugBuild
  /\ try_pc = "returned"
  /\ DidAt("SetGraphInBadState") # {}
  /\ DidAt("EndPass") # {}
  /\ DidAt("GraphChecker") = {}

\* The identities of the definitions of a list, and of the visits of a log.
PassesOf(list) == [k \in DOMAIN list |-> list[k].pass]

\* What the full pipeline visits under the options and on the instruction set.
FullPipeline ==
  IF pass_names.null
    THEN FixedOptimizations \o
         (IF HasArchOptimizations(instruction_set)
            THEN ArchOptimizations(instruction_set) ELSE <<>>)
    ELSE OverrideOptimizations(pass_names.names)

\* What the baseline pipeline visits on the instruction set.
BaselinePipeline ==
  IF HasBaselineOptimizations(instruction_set)
    THEN BaselineOptimizations(instruction_set)
    ELSE <<>>

\* The visits of the compile so far: of the lists that have returned and of the one
\* that is running.
VisitsSoFar == pipeline_log \o (IF phase \in {"idle", "done"} THEN <<>> ELSE pass_log)

\* C29: a baseline compile runs the baseline list of the instruction set and nothing of
\* the full pipeline: not the fixed list, not a list of passes to run, not the full
\* list of the instruction set. A compile of any other kind runs the full pipeline and
\* never the baseline list.
C29_BaselineRunsOnlyBaselineList ==
  /\ Baseline =>
       /\ phase \in {"idle", "baseline", "done"}
       /\ DidAt("RunOptimizations") = {}
       /\ PassesOf(VisitsSoFar) = SubSeq(PassesOf(BaselinePipeline), 1, Len(VisitsSoFar))
       /\ (try_pc \in {"generate", "returned"} /\ TryCompileRejection(unit) = "") =>
            /\ Cardinality(DidAt("RunBaselineOptimizations")) = 1
            /\ PassesOf(pipeline_log) = PassesOf(BaselinePipeline)
            /\ Cardinality(DidAt("Run")) =
                 Cardinality({k \in DOMAIN pipeline_log : pipeline_log[k].executed})
  /\ ~Baseline =>
       /\ phase \in {"idle", "override", "fixed", "arch", "done"}
       /\ DidAt("RunBaselineOptimizations") = {}
       /\ PassesOf(VisitsSoFar) = SubSeq(PassesOf(FullPipeline), 1, Len(VisitsSoFar))
       /\ (try_pc \in {"generate", "returned"} /\ TryCompileRejection(unit) = "") =>
            /\ Cardinality(DidAt("RunOptimizations")) = 1
            /\ PassesOf(pipeline_log) = PassesOf(FullPipeline)
            /\ Cardinality(DidAt("Run")) =
                 Cardinality({k \in DOMAIN pipeline_log : pipeline_log[k].executed})

\* A baseline compile for Thumb-2 under options that give a list of passes to run has
\* returned its code generator, having run the one pass of the baseline list.
C29_Witness ==
  /\ try_pc = "returned" /\ try_codegen
  /\ Baseline
  /\ ~pass_names.null /\ pass_names.names # <<>>
  /\ instruction_set = "kThumb2"
  /\ Len(pipeline_log) = 1
  /\ pipeline_log[1].pass = "kCriticalNativeAbiFixupArm" /\ pipeline_log[1].executed

\* What the observer does only when it times or dumps.
TimingEvents == {"StartTiming", "EndTiming", "TIMINGS"}
VisualizerEvents == {"PrintHeader", "DumpGraph", "DumpGraphWithDisassembly", "FlushVisualizer"}

\* C30: timing and visualization stay enabled only if the verbosity filter accepts the
\* name of the method. With a list of verbose methods configured the filter accepts the
\* names on the list and no other, whatever the filter string; with none configured it
\* accepts a name if and only if the filter string is empty or part of the name. For a
\* name the filter does not accept, timing and visualization are both off during the
\* whole compile; for one it accepts each is on as the options ask.
C30_VerbosityFilterGatesTimingAndVisualization ==
  LET name == compiler_options.method_name
      accepted ==
        IF compiler_options.verbose_methods # {}
          THEN name \in compiler_options.verbose_methods
          ELSE kStringFilter = <<>> \/ Strstr(name, kStringFilter)
  IN (try_pc # "idle" /\ PreBuildRejection(unit) = "") =>
       /\ pass_observer.timing_logger_enabled_ = (compiler_options.dump_pass_timings /\ accepted)
       /\ pass_observer.visualizer_enabled_ = (compiler_options.dump_cfg /\ accepted)
       /\ \A k \in DOMAIN try_log :
            /\ try_log[k].op \in TimingEvents =>
                 (compiler_options.dump_pass_timings /\ accepted)
            /\ try_log[k].op \in VisualizerEvents =>
                 (compiler_options.dump_cfg /\ accepted)
       /\ \A s \in DidAt("StartPass") :
            /\ (compiler_options.dump_cfg /\ accepted) => try_log[s + 1].op = "DumpGraph"
            /\ (compiler_options.dump_pass_timings /\ accepted) =>
                 \E k \in {s + 1, s + 2} : try_log[k].op = "StartTiming"

\* Timing and visualization were asked for; a list of verbose methods is configured that
\* holds a part of the method's name but not the name; the compile has returned its code
\* generator and nothing was timed or dumped.
C30_Witness ==
  /\ try_pc = "returned" /\ try_codegen
  /\ compiler_options.dump_pass_timings /\ compiler_options.dump_cfg
  /\ compiler_options.method_name \notin compiler_options.verbose_methods
  /\ \E v \in compiler_options.verbose_methods :
       Strstr(compiler_options.method_name, v)
  /\ DidAt("StartPass") # {}
  /\ \A k \in DOMAIN try_log : try_log[k].op \notin TimingEvents \cup VisualizerEvents

\* The statistics of the compile so far.
TryStats == {try_stats[k] : k \in DOMAIN try_stats}

\* The graph of the unit was built: no check rejected the method, the build succeeded
\* and the builder's scope was left.
GraphBuilt ==
  /\ PreBuildRejection(unit) = ""
  /\ unit.build_result = "kAnalysisSuccess"
  /\ try_pc \in {"optimize", "generate", "returned"}

\* C31: once the graph is built no outcome of a pass makes the compile fail: whatever
\* the passes report and whichever are skipped, no not-compiled statistic is recorded,
\* the compile can always take its next step, and when it has returned it has allocated
\* registers, generated the code, recorded kCompiledBytecode once and returned the code
\* generator.
C31_PassOutcomesNeverFailTheCompile ==
  GraphBuilt =>
    /\ TryStats \subseteq {"kAttemptBytecodeCompilation", "kCompiledBytecode"}
    /\ try_pc # "returned" => ENABLED NextTryCompile
    /\ try_pc = "returned" =>
         /\ try_codegen
         /\ Cardinality({k \in DOMAIN try_stats : try_stats[k] = "kCompiledBytecode"}) = 1
         /\ \E a \in DidAt("AllocateRegisters") : \E c \in DidAt("codegen->Compile") :
              /\ a < c
              /\ \A r \in DidAt("Run") : r < a
    /\ try_codegen <=> try_pc = "returned"

\* A compile of the full pipeline has returned its code generator after one pass
\* reported a change, another reported none and a third was skipped.
C31_Witness ==
  /\ GraphBuilt /\ try_pc = "returned" /\ try_codegen
  /\ "kCompiledBytecode" \in TryStats
  /\ \E k \in DOMAIN pipeline_log : pipeline_log[k].executed /\ pipeline_log[k].pass_change
  /\ \E k \in DOMAIN pipeline_log : pipeline_log[k].executed /\ ~pipeline_log[k].pass_change
  /\ \E k \in DOMAIN pipeline_log : ~pipeline_log[k].executed

\* The calls Emit makes to resolve thunk code.
ThunkCalls == {"GetThunkCode", "EmitThunkCode", "SetThunkCode"}

\* The positions of the log of compile t at which it resolved thunk code.
ThunkCallsOf(t) == {k \in DOMAIN emit_log[t] : emit_log[t][k].op \in ThunkCalls}

\* C32 as stated: Emit resolves the thunk code of every patch before it creates the
\* compiled method, so no call that resolves thunk code comes after the creation.
C32_ThunksResolvedBeforeArtifactCreated ==
  \A t \in Compiles :
    \A k \in ThunkCallsOf(t) : \A a \in EmitCallsOf(t, "SwapAllocCompiledMethod") : k < a

\* C32, amended: Emit sorts the patches, then builds the stack maps, then creates the
\* compiled method from both, each once, and only then resolves thunk code, patch by
\* patch in the sorted order; it returns the compiled method when the storage has been
\* asked for every patch of the method that needs thunk code.
C32_ArtifactCreatedBeforeThunksResolved ==
  \A t \in Compiles :
    /\ emit_pc[t] # "idle" =>
         /\ Len(emit_log[t]) >= 3
         /\ emit_log[t][1].op = "EmitAndSortLinkerPatches"
         /\ emit_log[t][2].op = "BuildStackMaps"
         /\ emit_log[t][3].op = "SwapAllocCompiledMethod"
         /\ \A k \in 4..Len(emit_log[t]) : k \in ThunkCallsOf(t)
         /\ packaged_patches[t] = <<linker_patches[t]>>
    /\ emit_pc[t] = "idle" => emit_log[t] = <<>>
    /\ \A j \in EmitCallsOf(t, "GetThunkCode"), k \in EmitCallsOf(t, "GetThunkCode") :
         j < k => emit_log[t][j].patch.literal_offset < emit_log[t][k].patch.literal_offset
    /\ emit_pc[t] = "returned" =>
         ThunkPatches(t) = {emit_log[t][k].patch : k \in EmitCallsOf(t, "GetThunkCode")}

\* An Emit has returned the compiled method it created before it asked the storage for
\* the thunk code of two patches and synthesized one.
C32_Witness ==
  \E t \in Compiles :
    /\ emit_pc[t] = "returned"
    /\ Cardinality(EmitCallsOf(t, "GetThunkCode")) = 2
    /\ \E a \in EmitCallsOf(t, "SwapAllocCompiledMethod") :
         \E k \in EmitCallsOf(t, "EmitThunkCode") : a < k

(***************************************************************************)
(* The reservation of a JIT compile of bytecode (checked under             *)
(* SpecJitReserve).                                                        *)
(***************************************************************************)
\* What a compile does to the memory it reserved before it commits it.
FillCalls == {"EmitJitRoots", "GenerateJitDebugInfo"}

FillCallsOf(t) == {k \in DOMAIN calls[t] : calls[t][k].op \in FillCalls}

\* C33: on the bytecode path of JitCompile the code is generated and the stack maps are
\* encoded before Reserve is called; Reserve is called once, right after the stack maps
\* are encoded, for the size of the generated code and the size of the encoded stack
\* maps; the JIT roots are emitted into the data Reserve handed out, after it succeeded
\* and while the compile holds the reservation; Commit comes after every fill step, and
\* Free, which follows only a failed Commit, is the last call of the compile.
C33_ReservationLifecycleOrdered ==
  \A t \in Compiles : ~is_native[t] =>
    /\ Cardinality(CallsOf(t, "Reserve")) <= 1
    /\ \A r \in CallsOf(t, "Reserve") :
         /\ \E g \in CallsOf(t, "codegen->Compile") : \E c \in Succeeded(t, "TryCompile") :
              g < c /\ c < r
         /\ r > 1 /\ calls[t][r - 1].op = "BuildStackMaps"
         /\ Len(stack_map[t]) = 1 /\ stack_map[t][1].origin = "BuildStackMaps"
         /\ calls[t][r].code_size = code_size[t]
         /\ calls[t][r].stack_map_size = StackMapSize(stack_map[t])
    /\ \A k \in FillCallsOf(t) :
         \E r \in Succeeded(t, "Reserve") :
           /\ r < k
           /\ calls[t][k].op = "EmitJitRoots" =>
                (k = r + 1 /\ calls[t][k].data = calls[t][r].data)
    /\ pc[t] \in {"fill", "commit"} =>
         /\ Succeeded(t, "Reserve") # {}
         /\ Provisional(t) = {reserved_code[t], reserved_data[t]}
    /\ Failed(t, "Reserve") # {} => FillCallsOf(t) \cup CallsOf(t, "Commit") = {}
    /\ \A c \in CallsOf(t, "Commit") :
         /\ CallsOf(t, "EmitJitRoots") # {}
         /\ \A k \in FillCallsOf(t) \cup CallsOf(t, "Reserve") : k < c
         /\ \A k \in (c + 1)..Len(calls[t]) :
              calls[t][k].op \in (IF calls[t][c].ok THEN {"AddMemoryUsage", "WriteLog"}
                                                    ELSE {"Free"})
    /\ \A f \in CallsOf(t, "Free") :
         /\ f = Len(calls[t])
         /\ f > 1 /\ calls[t][f - 1].op = "Commit" /\ ~calls[t][f - 1].ok
    /\ (Returned(t) /\ Succeeded(t, "Reserve") # {}) =>
         /\ Cardinality(CallsOf(t, "Commit")) = 1
         /\ Failed(t, "Commit") # {} <=> CallsOf(t, "Free") # {}

\* Two bytecode compiles have returned. One reserved for code and stack maps of different
\* sizes, emitted its roots and committed; the other did the same but its Commit failed,
\* and it freed the reservation last.
C33_Witness ==
  \E t \in Compiles : \E u \in Compiles \ {t} :
    /\ ~is_native[t] /\ ~is_native[u] /\ Returned(t) /\ Returned(u)
    /\ \E r \in Succeeded(t, "Reserve") :
         calls[t][r].code_size # calls[t][r].stack_map_size
    /\ CallsOf(t, "EmitJitRoots") # {} /\ Succeeded(t, "Commit") # {}
    /\ \E r \in Succeeded(u, "Reserve") : calls[u][r].code_size = code_size[u]
    /\ code_size[u] # code_size[t]
    /\ CallsOf(u, "EmitJitRoots") # {} /\ Failed(u, "Commit") # {}
    /\ CallsOf(u, "Free") # {}

(***************************************************************************)
(* The eligibility checks of TryCompile (checked under SpecTryCompile).    *)
(***************************************************************************)
\* The three checks, in the order the claim gives, each with what fails it and the
\* statistic of its rejection.
EligibilityChecks ==
  << [check |-> "IsInstructionSetSupported", stat |-> "kNotCompiledUnsupportedIsa",
      fails |-> ~unit.isa_supported],
     [check |-> "IsPathologicalCase", stat |-> "kNotCompiledPathological",
      fails |-> unit.pathological],
     [check |-> "SpaceFilter", stat |-> "kNotCompiledSpaceFilter",
      fails |-> unit.space_filter /\ unit.insns_size > kSpaceFilterOptimizingThreshold] >>

\* The checks the method fails, by position.
FailedChecks == {k \in DOMAIN EligibilityChecks : EligibilityChecks[k].fails}

IsEligibilityCheck(e) ==
  e.op \in {EligibilityChecks[k].check : k \in DOMAIN EligibilityChecks}

\* The checks the compile has applied, in order.
ChecksApplied ==
  LET applied == SelectSeq(try_log, IsEligibilityCheck)
  IN [k \in DOMAIN applied |-> applied[k].op]

\* The not-compiled statistics the compile has recorded, in order.
NotCompiledStats == SelectSeq(try_stats, LAMBDA s : s \in ClassificationStats)

\* C34: TryCompile applies the checks of the instruction set, of pathology and of the
\* space filter in that order and stops at the first the method fails: no later check is
\* applied, the compile returns no code generator, and the one not-compiled statistic
\* it records is that of the first failed check, however many checks the method fails.
\* A method that fails none has all three applied and none of their statistics
\* recorded. No compile records two not-compiled statistics.
C34_FirstFailingCheckClassifies ==
  try_pc # "idle" =>
    /\ Len(NotCompiledStats) <= 1
    /\ try_stats[1] = "kAttemptBytecodeCompilation"
    /\ IF FailedChecks # {}
         THEN LET first == Min(FailedChecks)
              IN /\ try_pc = "returned" /\ ~try_codegen
                 /\ ChecksApplied =
                      [k \in 1..first |-> EligibilityChecks[k].check]
                 /\ try_stats = <<"kAttemptBytecodeCompilation", EligibilityChecks[first].stat>>
                 /\ \A e \in DOMAIN try_log : try_log[e].op \in
                      {EligibilityChecks[k].check : k \in 1..first}
         ELSE /\ ChecksApplied =
                   [k \in DOMAIN EligibilityChecks |-> EligibilityChecks[k].check]
              /\ \A k \in DOMAIN EligibilityChecks :
                   \A s \in DOMAIN try_stats : try_stats[s] # EligibilityChecks[k].stat

\* A pathological method over the threshold of the space filter, on an instruction set
\* that is not supported, was rejected for the instruction set alone.
C34_Witness ==
  /\ try_pc = "returned"
  /\ FailedChecks = {1, 2, 3}
  /\ ChecksApplied = <<"IsInstructionSetSupported">>
  /\ try_stats = <<"kAttemptBytecodeCompilation", "kNotCompiledUnsupportedIsa">>

(***************************************************************************)
(* Definition sequences that break the rule on depends_on (checked under   *)
(* SpecPasses).                                                            *)
(***************************************************************************)
\* The definition at position j depends on a pass, not the sentinel, that no earlier
\* definition of the sequence names.
DanglingDependency(j) ==
  /\ definitions[j].depends_on # kNone
  /\ PriorOccurrences(j) = {}

\* C35: a sequence with a definition whose depends_on names a pass that has not occurred
\* earlier in it is run like any other: the loop visits every position and returns. The
\* dependency counts as unsatisfied: the pass is skipped, whatever passes before it
\* changed, and right after the skip its own outcome entry is false.
C35_DanglingDependencyIsSkipped ==
  /\ \A j \in DOMAIN pass_log :
       DanglingDependency(j) =>
         /\ ~pass_log[j].executed /\ ~pass_log[j].pass_change
         /\ (j = Len(pass_log)) => ~pass_changes[definitions[j].pass]
  /\ (run_pc = "loop" /\ i < length /\ DanglingDependency(i + 1)) => ~DependencySatisfied
  /\ run_pc = "loop" => ENABLED NextPasses
  /\ run_pc = "returned" => Len(pass_log) = length

\* A run has returned from a sequence whose second definition depends on a pass that
\* occurs only after it: the first pass changed the graph, the second was skipped, and
\* the third, the pass the second depends on, was executed.
C35_Witness ==
  /\ run_pc = "returned"
  /\ Len(pass_log) >= 3
  /\ Changed(1)
  /\ DanglingDependency(2) /\ ~pass_log[2].executed
  /\ definitions[3].pass = definitions[2].depends_on /\ pass_log[3].executed

(***************************************************************************)
(* The phases of the full pipeline (checked under SpecPipeline).           *)
(***************************************************************************)
\* The outcome bitset as a call of the loop finds it.
FreshOutcomes == [p \in PassIds |-> p = kNone]

\* The visit at position k of the phases that have returned changed the graph.
ChangedEarlier(k) == pipeline_log[k].executed /\ pipeline_log[k].pass_change

\* C36: every call of the loop starts from a bitset in which the sentinel alone is
\* true, so an outcome entry is true only by a pass the current call executed and that
\* reported a change, never by what an earlier phase did. The architecture-specific
\* phase follows the architecture-independent one whatever that one returned and
\* whichever passes it skipped: when the pipeline is done both lists have been visited,
\* in that order, each from its first position.
C36_OutcomesFreshInEveryPhase ==
  /\ (run_pc = "loop" /\ i = 0) => pass_changes = FreshOutcomes
  /\ run_pc \in {"loop", "returned"} =>
       \A p \in PassIds \ {kNone} :
         pass_changes[p] => \E k \in DOMAIN pass_log : pass_log[k].pass = p /\ Changed(k)
  /\ (phase = "fixed" /\ run_pc = "returned") =>
       ENABLED (RunArchOptimizations \/ RunArchOptimizationsNone)
  /\ phase = "arch" =>
       /\ HasArchOptimizations(instruction_set)
       /\ definitions = ArchOptimizations(instruction_set)
       /\ PassesOf(pipeline_log) = PassesOf(FixedOptimizations)
       /\ Len(phase_returns) = 1
  /\ (phase = "done" /\ pass_names.null /\ HasArchOptimizations(instruction_set)) =>
       /\ PassesOf(pipeline_log) =
            PassesOf(FixedOptimizations \o ArchOptimizations(instruction_set))
       /\ pipeline_log[Len(FixedOptimizations) + 1].pos = 0
       /\ Len(phase_returns) = 2

\* The architecture-specific phase is about to visit its first pass, all outcomes
\* cleared, after an architecture-independent phase in which a pass changed the graph
\* and another was skipped.
C36_Witness ==
  /\ phase = "arch" /\ run_pc = "loop" /\ i = 0
  /\ phase_returns = <<TRUE>>
  /\ \E k \in DOMAIN pipeline_log : ChangedEarlier(k)
  /\ \E k \in DOMAIN pipeline_log : ~pipeline_log[k].executed
  /\ \A p \in PassIds \ {kNone} : ~pass_changes[p]

(***************************************************************************)
(* A list of passes to run (checked under SpecTryCompile).                 *)
(***************************************************************************)
IsRun(e) == e.op = "Run"

\* The names of the passes the compile has executed, in order.
RunNames ==
  LET runs == SelectSeq(try_log, IsRun)
  IN [k \in DOMAIN runs |-> runs[k].pass_name]

\* C37: when a list of passes to run is given, a compile that is not a baseline compile
\* runs the named passes and nothing else of the full pipeline: one call of the loop is
\* made, on the definitions made from the names; neither the fixed list nor the list
\* of the instruction set is run; and the passes executed before registers are
\* allocated are the named ones, each once, in the order of the list, whether or not
\* one of them changed the graph.
C37_OverrideReplacesFullPipeline ==
  (~pass_names.null /\ ~Baseline) =>
    /\ phase \in {"idle", "override", "done"}
    /\ phase # "idle" => definitions = OverrideOptimizations(pass_names.names)
    /\ Len(RunNames) <= Len(pass_names.names)
    /\ RunNames = SubSeq(pass_names.names, 1, Len(RunNames))
    /\ phase = "done" =>
         /\ RunNames = pass_names.names
         /\ Len(phase_returns) = 1
         /\ Len(pipeline_log) = Len(pass_names.names)
    /\ \A a \in DidAt("AllocateRegisters") :
         /\ phase = "done"
         /\ \A r \in DidAt("Run") : r < a
         /\ Cardinality({s \in DidAt("StartPass") : s < a}) = 1 + Len(pass_names.names)

\* A compile under a list of two passes to run, one named with a suffix, has returned
\* its code generator: it executed the two, the first of which changed the graph.
C37_Witness ==
  /\ try_pc = "returned" /\ try_codegen
  /\ ~pass_names.null /\ ~Baseline
  /\ Len(pass_names.names) = 2
  /\ \E k \in DOMAIN pass_names.names[2] : pass_names.names[2][k] = kPassNameSeparator
  /\ RunNames = pass_names.names
  /\ pipeline_log[1].pass_change /\ ~pipeline_log[2].pass_change
  /\ HasArchOptimizations(instruction_set)

(***************************************************************************)
(* The harness and the passes that are skipped (checked under              *)
(* SpecTryCompile).                                                        *)
(***************************************************************************)
\* The visits of the compile so far that executed their pass, in order.
ExecutedVisits == SelectSeq(VisitsSoFar, LAMBDA v : v.executed)

\* How many scopes the compile has entered and left if one is entered for the graph
\* builder, one for each executed pass and three for register allocation.
ScopesOfExecutedSteps ==
  (IF DidAt("BuildGraph") # {} THEN 1 ELSE 0) + Len(ExecutedVisits) +
  (IF DidAt("AllocateRegisters") # {} THEN Len(RegisterAllocationScopes) ELSE 0)

\* How many times the observer has done the thing.
Times(op) == Cardinality(DidAt(op))

\* C38: the harness is entered and left once for the graph builder, once for every
\* executed pass and once for each step of register allocation, and for nothing else: a
\* skipped pass adds no StartPass, EndPass, timing, snapshot or validation. The body of
\* the scope of a pass is its Run, and the flag handed to EndPass, and by it to the
\* validator, is what Run reported: false only for an executed pass that reported no
\* change. The scopes of the graph builder and of register allocation are left with true.
C38_HarnessOnlyAroundExecutedPasses ==
  LET runs == SelectSeq(try_log, IsRun)
      scopes == ScopesOfExecutedSteps
  IN /\ Times("StartPass") = scopes
     /\ Times("EndPass") = scopes
     /\ Times("StartTiming") = (IF pass_observer.timing_logger_enabled_ THEN scopes ELSE 0)
     /\ Times("EndTiming") = Times("StartTiming")
     /\ Times("DumpGraph") = (IF pass_observer.visualizer_enabled_ THEN 2 * scopes ELSE 0)
     /\ Times("GraphChecker") =
          (IF kIsDebugBuild /\ ~pass_observer.graph_in_bad_state_ THEN scopes ELSE 0)
     /\ [k \in DOMAIN runs |-> runs[k].flag] =
          [k \in DOMAIN ExecutedVisits |-> ExecutedVisits[k].pass_change]
     /\ \A r \in DidAt("Run") :
          /\ r < Len(try_log)
          /\ try_log[r + 1].op = "EndPass"
          /\ try_log[r + 1].flag = try_log[r].flag
     /\ \A e \in DidAt("EndPass") :
          ~try_log[e].flag => (try_log[e - 1].op = "Run" /\ ~try_log[e - 1].flag)
     /\ \A g \in DidAt("GraphChecker") :
          ~try_log[g].flag =>
            \E r \in (g - 4)..(g - 1) :
              /\ r >= 1 /\ try_log[r].op = "Run" /\ ~try_log[r].flag
              /\ \A k \in (r + 1)..(g - 1) : try_log[k].op \in {"EndPass", "EndTiming", "DumpGraph"}

\* A compile in a debug build has returned its code generator: a pass changed the graph,
\* another was executed and changed nothing, a third was skipped; the validator was
\* handed false after the second and true after the first.
C38_Witness ==
  /\ try_pc = "returned" /\ try_codegen /\ kIsDebugBuild
  /\ \E k \in DOMAIN pipeline_log : ~pipeline_log[k].executed
  /\ \E k \in DOMAIN pipeline_log : pipeline_log[k].executed /\ pipeline_log[k].pass_change
  /\ \E g \in DidAt("GraphChecker") : ~try_log[g].flag
  /\ \E g \in DidAt("GraphChecker") : try_log[g].flag /\ try_log[g - 2].op = "Run"
  /\ Times("StartPass") < 1 + Len(pipeline_log) + Len(RegisterAllocationScopes)

(***************************************************************************)
(* What JitCompile does not do on the paths that return false (checked     *)
(* under Spec).                                                            *)
(***************************************************************************)
\* What JitCompile does once the code is committed.
PostCommitCalls == {"AddMemoryUsage", "WriteLog"}

PostCommitCallsOf(t) == {k \in DOMAIN calls[t] : calls[t][k].op \in PostCommitCalls}

\* C39: a compile of a method that is not native calls Reserve only after TryCompile
\* returned a code generator; when TryCompile returned none the compile has returned
\* false, its last call being TryCompile, and holds nothing of the cache. On the native
\* and on the bytecode path the memory usage is accounted and the JIT log written only
\* after a Commit that succeeded, the log only if a logger was passed; a compile that
\* returned false did neither, and one that returned true accounted the memory usage.
C39_NoReserveWithoutCodegenNoSideEffectsOnFalse ==
  \A t \in Compiles :
    /\ ~is_native[t] =>
         /\ \A r \in CallsOf(t, "Reserve") :
              /\ codegen[t]
              /\ \E c \in Succeeded(t, "TryCompile") : c < r
         /\ \A c \in Failed(t, "TryCompile") :
              /\ c = Len(calls[t])
              /\ Returned(t) /\ result[t] = "false"
              /\ ~codegen[t]
              /\ Provisional(t) = {}
              /\ entry_point[t] = entry_at_begin[t]
    /\ \A k \in PostCommitCallsOf(t) :
         /\ \E c \in Succeeded(t, "Commit") : c < k
         /\ Failed(t, "Commit") \cup Failed(t, "Reserve") \cup CallsOf(t, "Free") = {}
         /\ calls[t][k].op = "WriteLog" =>
              (jit_logger[t] /\ k > 1 /\ calls[t][k - 1].op = "AddMemoryUsage")
    /\ (Returned(t) /\ result[t] = "false") => PostCommitCallsOf(t) = {}
    /\ (Returned(t) /\ result[t] = "true") =>
         /\ Cardinality(CallsOf(t, "AddMemoryUsage")) = 1
         /\ Cardinality(CallsOf(t, "WriteLog")) = (IF jit_logger[t] THEN 1 ELSE 0)

\* Two compiles have returned: a bytecode compile whose TryCompile returned no code
\* generator returned false without a Reserve, while a native compile with a logger
\* committed, accounted the memory usage and wrote the log.
C39_Witness ==
  \E t \in Compiles : \E u \in Compiles \ {t} :
    /\ Returned(t) /\ ~is_native[t] /\ result[t] = "false"
    /\ Failed(t, "TryCompile") # {} /\ CallsOf(t, "Reserve") = {}
    /\ Returned(u) /\ is_native[u] /\ result[u] = "true" /\ jit_logger[u]
    /\ Succeeded(u, "Commit") # {}
    /\ CallsOf(u, "AddMemoryUsage") # {} /\ CallsOf(u, "WriteLog") # {}
\* The number of calls of Emit in this ahead-of-time compile.
EmitCalls == Cardinality({k \in DOMAIN aot_events : aot_events[k] = "Emit"})

\* This compile called TryCompileIntrinsic, and it returned a code generator.
IntrinsicAttemptSucceeded ==
  Occurs("TryCompileIntrinsic", aot_events) /\ IntrinsicCompiles(method)

\* This compile called TryCompile, and it returned a code generator.
GeneralAttemptSucceeded ==
  Occurs("TryCompile", aot_events) /\ TryCompile(method).codegen

\* C40: when an ahead-of-time compile (Compile or JniCompile) has returned, its artifact is
\* marked as an intrinsic exactly if the compile called TryCompileIntrinsic and got a code
\* generator from it. Compile returns an artifact exactly if its intrinsic attempt or its
\* call of TryCompile returned a code generator; it then has called Emit exactly once, and
\* otherwise not at all; and it has called TryCompile only if the intrinsic attempt was not
\* made or returned no code generator.
C40_IntrinsicMarkIffIntrinsicCompiled ==
  aot_pc = "returned" =>
    /\ (compiled_method # <<>> /\ compiled_method[1].intrinsic) <=> IntrinsicAttemptSucceeded
    /\ method \in AotMethodInputs =>
         /\ compiled_method # <<>> <=> (IntrinsicAttemptSucceeded \/ GeneralAttemptSucceeded)
         /\ EmitCalls = (IF compiled_method # <<>> THEN 1 ELSE 0)
         /\ Occurs("TryCompile", aot_events) => ~IntrinsicAttemptSucceeded

\* Compile has returned the unmarked artifact of TryCompile, called after the intrinsic
\* attempt returned no code generator; Emit was called once.
C40_Witness ==
  /\ aot_pc = "returned"
  /\ method \in AotMethodInputs
  /\ Occurs("TryCompileIntrinsic", aot_events) /\ ~IntrinsicAttemptSucceeded
  /\ GeneralAttemptSucceeded
  /\ compiled_method # <<>> /\ ~compiled_method[1].intrinsic
  /\ EmitCalls = 1

====
